---- MODULE Spec2Model ----
(***************************************************************************)
(* Model of the enterprise-architecture repository core:                   *)
(*   - EaRepositoryProvider (src/unnamed/part_001): live model, undo/redo  *)
(*     history, the persistence effect and the governance gate;            *)
(*   - architectureScopePolicy (src/unnamed/part_000);                     *)
(*   - eaMetaModel, RelationshipSemantics / ArchitectureRepository;        *)
(*   - buildGovernanceDebt (src/src/pages/first-launch/index.tsx).         *)
(*                                                                         *)
(* Encoding of JavaScript values                                           *)
(*   null / absent      : the empty tuple None, a present value x is <<x>> *)
(*   attribute maps     : sequences of <<key, value>> pairs in insertion   *)
(*                        order (JSON.stringify and Map iterate that way)  *)
(*   attribute values   : strings; the boolean true is the string JsTrue   *)
(*   Date.toISOString() : the clock reading itself (one value per ms)      *)
(*   a JSON text        : [wellFormed, value]; JSON.parse throws on a text *)
(*                        that is not well formed                          *)
(***************************************************************************)
EXTENDS Integers, Sequences, FiniteSets, TLC

\* ------------------------------------------------------------ option values
None == <<>>
Some(x) == <<x>>
IsNone(o) == o = <<>>
IsSome(o) == o # <<>>
Val(o) == o[1]

Range(s) == {s[i] : i \in 1..Len(s)}

\* ------------------------------------------------------------------ bounds
\* Largest clock reading (milliseconds that can elapse in a run).
MaxClock == 1
\* Number of user operations (edits, create, load, clear, undo, redo) in a run
\* of the unconstrained provider specification.
MaxOps == 3

\* ------------------------------------------------------- program constants
HISTORY_LIMIT == 50

JsTrue == "#true"
JsUndefined == "#undefined"

\* ------------------------------------------------------------- eaMetaModel
OBJECT_TYPES ==
    {"CapabilityCategory", "Capability", "SubCapability", "BusinessProcess",
     "Department", "Application", "Technology", "Programme", "Project",
     "Principle", "Requirement"}

RELATIONSHIP_TYPES ==
    {"DECOMPOSES_TO", "REALIZES", "DEPENDS_ON", "HOSTED_ON", "SUPPORTS",
     "DELIVERS", "OWNS"}

\* OBJECT_TYPE_DEFINITIONS[type].layer
ObjectTypeLayer(type) ==
    CASE type \in {"Programme", "Project", "Principle", "Requirement"} -> "Strategy"
      [] type \in {"CapabilityCategory", "Capability", "SubCapability",
                   "BusinessProcess", "Department"} -> "Business"
      [] type = "Application" -> "Application"
      [] type = "Technology" -> "Technology"
      [] OTHER -> JsUndefined

\* RELATIONSHIP_TYPE_DEFINITIONS[type].fromTypes / .toTypes
RelationshipTypeFromTypes(type) ==
    CASE type = "DECOMPOSES_TO" -> {"CapabilityCategory", "Capability", "SubCapability"}
      [] type = "REALIZES" -> {"BusinessProcess"}
      [] type = "DEPENDS_ON" -> {"Application"}
      [] type = "HOSTED_ON" -> {"Application"}
      [] type = "SUPPORTS" -> {"Application"}
      [] type = "DELIVERS" -> {"Programme"}
      [] type = "OWNS" -> {"Department"}
      [] OTHER -> {}

RelationshipTypeToTypes(type) ==
    CASE type = "DECOMPOSES_TO" -> {"CapabilityCategory", "Capability", "SubCapability"}
      [] type = "REALIZES" -> {"Application"}
      [] type = "DEPENDS_ON" -> {"Application"}
      [] type = "HOSTED_ON" -> {"Technology"}
      [] type = "SUPPORTS" -> {"BusinessProcess"}
      [] type = "DELIVERS" -> {"CapabilityCategory", "Capability", "SubCapability",
                               "Application"}
      [] type = "OWNS" -> {"Application"}
      [] OTHER -> {}

isValidObjectType(type) == type \in OBJECT_TYPES

isValidRelationshipType(type) == type \in RELATIONSHIP_TYPES

\* ------------------------------------------------- architectureScopePolicy
\* A scope policy whose Domain branch tests the Business Unit layers.
isObjectTypeWritableForScope_DomainAsBusinessUnit(architectureScope, objectType) ==
    LET layer == ObjectTypeLayer(objectType) IN
    IF architectureScope = "Programme"
    THEN objectType = "Programme" \/ objectType = "Project"
    ELSE IF architectureScope = "Business Unit"
    THEN layer = "Business" \/ layer = "Application"
    ELSE IF architectureScope = "Domain"
    THEN layer = "Business" \/ layer = "Application"
    ELSE TRUE

isObjectTypeWritableForScope(architectureScope, objectType) ==
    LET layer == ObjectTypeLayer(objectType) IN
    IF architectureScope = "Programme"
    THEN objectType = "Programme" \/ objectType = "Project"
    ELSE IF architectureScope = "Business Unit"
    THEN layer = "Business" \/ layer = "Application"
    ELSE IF architectureScope = "Domain"
    THEN layer = "Application" \/ layer = "Technology"
    ELSE TRUE

\* objectType is an option: None models null / undefined / ''.
isAnyObjectTypeWritableForScope(architectureScope, objectType) ==
    IF IsNone(objectType) THEN FALSE
    ELSE IF ~isValidObjectType(Val(objectType)) THEN FALSE
    ELSE isObjectTypeWritableForScope(architectureScope, Val(objectType))

\* getReadOnlyReason(architectureScope, objectType): the message, as an
\* option (None models null); objectType is an option as above.
getReadOnlyReason(architectureScope, objectType) ==
    IF IsNone(objectType) \/ ~isValidObjectType(Val(objectType))
    THEN IF architectureScope = "Programme" THEN Some("Read-only in Programme scope.")
         ELSE IF architectureScope = "Business Unit"
         THEN Some("Read-only in Business Unit scope.")
         ELSE IF architectureScope = "Domain" THEN Some("Read-only in Domain scope.")
         ELSE None
    ELSE LET layer == ObjectTypeLayer(Val(objectType)) IN
         IF architectureScope = "Business Unit"
         THEN IF layer = "Business" \/ layer = "Application" THEN None
              ELSE Some("Read-only in Business Unit scope: only Business + Application layers are editable.")
         ELSE IF architectureScope = "Domain"
         THEN IF layer = "Application" \/ layer = "Technology" THEN None
              ELSE Some("Read-only in Domain scope: only Application + Technology layers are editable.")
         ELSE IF architectureScope = "Programme"
         THEN IF Val(objectType) = "Programme" \/ Val(objectType) = "Project" THEN None
              ELSE Some("Read-only in Programme scope: only Programme + Project elements are editable.")
         ELSE None

\* -------------------------------------------------------------- attributes
AttrKeysOf(attrs) == {attrs[i][1] : i \in 1..Len(attrs)}

\* attrs[key]: the value stored under key, or undefined.
AttrGet(attrs, key) ==
    IF key \in AttrKeysOf(attrs)
    THEN attrs[CHOOSE i \in 1..Len(attrs) : attrs[i][1] = key][2]
    ELSE JsUndefined

\* Keys in the order String.prototype.localeCompare sorts them.
LocaleKeyOrder ==
    <<"_deleted", "dependencyStrength", "lifecycleState", "name", "ownerName",
      "ownerRole", "owningUnit">>

KeyRank(key) == CHOOSE i \in 1..Len(LocaleKeyOrder) : LocaleKeyOrder[i] = key

\* stableStringify of an attribute map: the pairs, keys sorted.  The text
\* "{k1:v1,k2:v2}" is determined by (and determines) that sorted sequence.
stableStringify(attrs) ==
    LET n == Len(attrs)
        \* position of pair i once the keys are sorted
        pos(i) == Cardinality({j \in 1..n : KeyRank(attrs[j][1]) < KeyRank(attrs[i][1])}) + 1
    IN [p \in 1..n |-> attrs[CHOOSE i \in 1..n : pos(i) = p]]

\* ------------------------------------------------------------ EaRepository
\* An EaObject is [id, type, attributes]; an EaRelationship is
\* [fromId, toId, type, attributes]; an EaRepository is
\* [objects, relationships], objects in Map insertion order.
ObjectIds(objects) == {objects[i].id : i \in 1..Len(objects)}

\* repo.objects.get(id), as an option
ObjectById(objects, id) ==
    IF id \in ObjectIds(objects)
    THEN Some(objects[CHOOSE i \in 1..Len(objects) : objects[i].id = id])
    ELSE None

\* The element and relationship invariants the EaRepository constructor
\* enforces (it throws otherwise): ids are unique, types are known, both
\* endpoints of a relationship exist and its endpoint types are permitted.
EaRepositoryAccepts(objects, relationships) ==
    /\ \A i, j \in 1..Len(objects) : objects[i].id = objects[j].id => i = j
    /\ \A i \in 1..Len(objects) : isValidObjectType(objects[i].type)
    /\ \A i \in 1..Len(relationships) :
          LET r == relationships[i]
              from == ObjectById(objects, r.fromId)
              to == ObjectById(objects, r.toId)
          IN /\ IsSome(from) /\ IsSome(to)
             /\ isValidRelationshipType(r.type)
             /\ Val(from).type \in RelationshipTypeFromTypes(r.type)
             /\ Val(to).type \in RelationshipTypeToTypes(r.type)

\* new EaRepository({objects, relationships}) / new EaRepository()
NewEaRepository(objects, relationships) ==
    [objects |-> objects, relationships |-> relationships]

EmptyEaRepository == NewEaRepository(<<>>, <<>>)

\* ------------------------------------------------------ repositoryMetadata
ARCHITECTURE_SCOPES == {"Enterprise", "Business Unit", "Domain", "Programme"}
GOVERNANCE_MODES == {"Strict", "Advisory", "None"}
LIFECYCLE_COVERAGE_OPTIONS == {"To-Be", "As-Is", "Both"}

\* validateRepositoryMetadata: a metadata candidate is an option (None: the
\* snapshot has no metadata object); the names must be non-blank and the
\* enumerated fields must hold one of their options.
validateRepositoryMetadata(candidate) ==
    IF /\ IsSome(candidate)
       /\ Val(candidate).repositoryName # ""
       /\ Val(candidate).organizationName # ""
       /\ Val(candidate).architectureScope \in ARCHITECTURE_SCOPES
       /\ Val(candidate).governanceMode \in GOVERNANCE_MODES
       /\ Val(candidate).lifecycleCoverage \in LIFECYCLE_COVERAGE_OPTIONS
    THEN [ok |-> TRUE, metadata |-> candidate, error |-> ""]
    ELSE [ok |-> FALSE, metadata |-> None, error |-> "Invalid repository metadata."]

\* Object.freeze({ ...metadata }): a copy with the same fields.
freezeMetadata(metadata) == [k \in DOMAIN metadata |-> metadata[k]]

\* --------------------------------------------------------- scope boundary
\* A scope check that compares the types only, not the attributes.
hasReadOnlyObjectChanges_TypesOnly(prev, next, architectureScope) ==
    IF architectureScope # "Business Unit" /\ architectureScope # "Domain" THEN FALSE
    ELSE IF IsNone(prev) \/ IsNone(next) THEN FALSE
    ELSE
      LET prevById == Val(prev).objects
          nextById == Val(next).objects
          ids == ObjectIds(prevById) \cup ObjectIds(nextById)
          typeOf(o) == IF IsSome(o) THEN Some(Val(o).type) ELSE None
      IN \E id \in ids :
            LET a == ObjectById(prevById, id)
                b == ObjectById(nextById, id)
                writableA == isAnyObjectTypeWritableForScope(architectureScope, typeOf(a))
                writableB == isAnyObjectTypeWritableForScope(architectureScope, typeOf(b))
            IN /\ ~writableA \/ ~writableB
               /\ \/ IsNone(a) \/ IsNone(b)
                  \/ /\ IsSome(a) /\ IsSome(b)
                     /\ Val(a).type # Val(b).type

hasReadOnlyObjectChanges(prev, next, architectureScope) ==
    IF architectureScope # "Business Unit" /\ architectureScope # "Domain" THEN FALSE
    ELSE IF IsNone(prev) \/ IsNone(next) THEN FALSE
    ELSE
      LET prevById == Val(prev).objects
          nextById == Val(next).objects
          ids == ObjectIds(prevById) \cup ObjectIds(nextById)
          typeOf(o) == IF IsSome(o) THEN Some(Val(o).type) ELSE None
      IN \E id \in ids :
            LET a == ObjectById(prevById, id)
                b == ObjectById(nextById, id)
                writableA == isAnyObjectTypeWritableForScope(architectureScope, typeOf(a))
                writableB == isAnyObjectTypeWritableForScope(architectureScope, typeOf(b))
            IN /\ ~writableA \/ ~writableB
               /\ \/ IsNone(a) \/ IsNone(b)
                  \/ /\ IsSome(a) /\ IsSome(b)
                     /\ \/ Val(a).type # Val(b).type
                        \/ stableStringify(Val(a).attributes)
                             # stableStringify(Val(b).attributes)

\* ----------------------------------------------------------- serialization
\* serializeRepository(repo, metadata) evaluated when the clock reads now.
serializeRepository(repo, metadata, now) ==
    [version |-> 1,
     metadata |-> Some(metadata),
     objects |-> Some([i \in 1..Len(repo.objects) |->
                    [id |-> repo.objects[i].id,
                     type |-> repo.objects[i].type,
                     attributes |-> repo.objects[i].attributes]]),
     relationships |-> Some([i \in 1..Len(repo.relationships) |->
                    [fromId |-> repo.relationships[i].fromId,
                     toId |-> repo.relationships[i].toId,
                     type |-> repo.relationships[i].type,
                     attributes |-> repo.relationships[i].attributes]]),
     updatedAt |-> now]

\* JSON.stringify of a serialized repository, and JSON.parse of a text.
JsonStringify(value) == [wellFormed |-> TRUE, value |-> value]

JsonParses(text) == text.wellFormed

JsonParse(text) == text.value

\* tryDeserializeRepository(value): [ok, repo, metadata, error], repo and
\* metadata options that are None on failure, error the message of a failure.
\* objects and relationships are options: None is a value that is no array.
\* The constructor's own message is not in the source; the fallback text
\* stands for it.
tryDeserializeRepository(value) ==
    LET metaRes == validateRepositoryMetadata(value.metadata)
        failed(error) == [ok |-> FALSE, repo |-> None, metadata |-> None, error |-> error]
    IN IF ~metaRes.ok THEN failed(metaRes.error)
       ELSE IF IsNone(value.objects) \/ IsNone(value.relationships)
       THEN failed("Invalid repository snapshot: expected { objects, relationships }.")
       ELSE IF ~EaRepositoryAccepts(Val(value.objects), Val(value.relationships))
       THEN failed("Failed to load repository snapshot.")
       ELSE [ok |-> TRUE,
             repo |-> Some(NewEaRepository(Val(value.objects), Val(value.relationships))),
             metadata |-> metaRes.metadata,
             error |-> ""]

\* -------------------------------------------------- ArchitectureRepository
RepositoryCollectionTypes ==
    {"capabilities", "businessProcesses", "applications", "technologies", "programmes"}

expectedElementType(type) ==
    CASE type = "capabilities" -> "Capability"
      [] type = "businessProcesses" -> "BusinessProcess"
      [] type = "applications" -> "Application"
      [] type = "technologies" -> "Technology"
      [] type = "programmes" -> "Programme"

\* new ArchitectureRepository(): the id index and the five typed collections,
\* each a Map kept here as the sequence of its values in insertion order.
EmptyArchitectureRepository ==
    [byId |-> <<>>, coll |-> [c \in RepositoryCollectionTypes |-> <<>>]]

StoreIds(store) == {store.byId[i].id : i \in 1..Len(store.byId)}

\* getElementById(id), as an option
getElementById(store, id) ==
    IF id \in StoreIds(store)
    THEN Some(store.byId[CHOOSE i \in 1..Len(store.byId) : store.byId[i].id = id])
    ELSE None

getElementsByType(store, type) == store.coll[type]

\* An addElement that stores the element whatever its elementType.
addElement_AnyElementType(store, type, element) ==
    IF element.id \in StoreIds(store)
    THEN [ok |-> FALSE, error |-> "DuplicateId", store |-> store]
    ELSE [ok |-> TRUE, error |-> "",
          store |-> [byId |-> Append(store.byId, element),
                     coll |-> [store.coll EXCEPT ![type] = Append(@, element)]]]

\* An addElement that looks for the id in the target collection only.
addElement_ChecksOwnCollection(store, type, element) ==
    IF element.id \in {store.coll[type][i].id : i \in 1..Len(store.coll[type])}
    THEN [ok |-> FALSE, error |-> "DuplicateId", store |-> store]
    ELSE IF element.elementType # expectedElementType(type)
    THEN [ok |-> FALSE, error |-> "ElementTypeMismatch", store |-> store]
    ELSE [ok |-> TRUE, error |-> "",
          store |-> [byId |-> Append(store.byId, element),
                     coll |-> [store.coll EXCEPT ![type] = Append(@, element)]]]

\* addElement(type, element): [ok, error, store]
addElement(store, type, element) ==
    IF element.id \in StoreIds(store)
    THEN [ok |-> FALSE, error |-> "DuplicateId", store |-> store]
    ELSE IF element.elementType # expectedElementType(type)
    THEN [ok |-> FALSE, error |-> "ElementTypeMismatch", store |-> store]
    ELSE [ok |-> TRUE, error |-> "",
          store |-> [byId |-> Append(store.byId, element),
                     coll |-> [store.coll EXCEPT ![type] = Append(@, element)]]]

\* --------------------------------------------------- RelationshipSemantics
\* String.prototype.trim, on the type names and ids the model uses: the
\* padded ones lose their blanks, the others have none.
Trim(text) ==
    CASE text = " DEPENDS_ON " -> "DEPENDS_ON"
      [] text = " o1 " -> "o1"
      [] text = " " -> ""
      [] OTHER -> text

\* Names every object literal inherits from Object.prototype.
ObjectPrototypeKeys == {"constructor", "toString", "valueOf", "hasOwnProperty"}

\* A table that lets DEPENDS_ON end at a Technology.
RELATIONSHIP_ENDPOINT_RULES_DependsOnAnything(type) ==
    CASE type = "DECOMPOSES_TO" ->
           Some([own |-> TRUE, from |-> {"Capability"}, to |-> {"BusinessProcess"}])
      [] type = "REALIZED_BY" ->
           Some([own |-> TRUE, from |-> {"BusinessProcess"}, to |-> {"Application"}])
      [] type = "DEPENDS_ON" ->
           Some([own |-> TRUE, from |-> {"Application"}, to |-> {"Application", "Technology"}])
      [] type = "HOSTED_ON" ->
           Some([own |-> TRUE, from |-> {"Application"}, to |-> {"Technology"}])
      [] type = "IMPACTS" ->
           Some([own |-> TRUE, from |-> {"Programme"},
                 to |-> {"Capability", "Application", "Technology"}])
      [] type \in ObjectPrototypeKeys -> Some([own |-> FALSE, from |-> {}, to |-> {}])
      [] OTHER -> None

\* RELATIONSHIP_ENDPOINT_RULES[type], as an option (None models undefined).
\* The table is an object literal: besides its five own keys, the lookup
\* finds the members inherited from Object.prototype, which are no rules
\* (own is FALSE: they have neither from nor to).
RELATIONSHIP_ENDPOINT_RULES(type) ==
    CASE type = "DECOMPOSES_TO" ->
           Some([own |-> TRUE, from |-> {"Capability"}, to |-> {"BusinessProcess"}])
      [] type = "REALIZED_BY" ->
           Some([own |-> TRUE, from |-> {"BusinessProcess"}, to |-> {"Application"}])
      [] type = "DEPENDS_ON" ->
           Some([own |-> TRUE, from |-> {"Application"}, to |-> {"Application"}])
      [] type = "HOSTED_ON" ->
           Some([own |-> TRUE, from |-> {"Application"}, to |-> {"Technology"}])
      [] type = "IMPACTS" ->
           Some([own |-> TRUE, from |-> {"Programme"},
                 to |-> {"Capability", "Application", "Technology"}])
      [] type \in ObjectPrototypeKeys -> Some([own |-> FALSE, from |-> {}, to |-> {}])
      [] OTHER -> None

\* RELATIONSHIP_ENDPOINT_RULES[(type ?? '').trim()] ?? null
getRelationshipEndpointRule(type) == RELATIONSHIP_ENDPOINT_RULES(Trim(type))

\* Boolean(getRelationshipEndpointRule(type))
isKnownRelationshipType(type) == IsSome(getRelationshipEndpointRule(type))

\* createRelationshipRepository(repo).addRelationship(record):
\* [ok, error, rels], checked in the order endpoints, type, endpoint types.
\* A type that isKnownRelationshipType takes for known although the member
\* found is no rule has no allowed sets to test: the record is not stored,
\* and the failure is kept apart as NotARule.
addRelationship(rels, store, record) ==
    LET source == getElementById(store, record.sourceElementId)
        target == getElementById(store, record.targetElementId)
        rule == getRelationshipEndpointRule(record.relationshipType)
    IN IF IsNone(source) \/ IsNone(target)
       THEN [ok |-> FALSE, error |-> "UnknownEndpoint", rels |-> rels]
       ELSE IF ~isKnownRelationshipType(record.relationshipType)
       THEN [ok |-> FALSE, error |-> "UnknownType", rels |-> rels]
       ELSE IF ~Val(rule).own
       THEN [ok |-> FALSE, error |-> "NotARule", rels |-> rels]
       ELSE IF \/ Val(source).elementType \notin Val(rule).from
               \/ Val(target).elementType \notin Val(rule).to
       THEN [ok |-> FALSE, error |-> "EndpointTypeMismatch", rels |-> rels]
       ELSE [ok |-> TRUE, error |-> "", rels |-> Append(rels, record)]

\* -------------------------------------------------------- validation scans
\* The ownership fields the mandatory-attribute scan requires to be non-empty.
MandatoryFields == {"ownerRole", "ownerName", "owningUnit"}

\* validateArchitectureRepository(repo, now).summary.total: one finding per
\* violated mandatory field per element.
validateArchitectureRepository(store) ==
    Cardinality({<<i, f>> \in (1..Len(store.byId)) \X MandatoryFields :
                    store.byId[i][f] = ""})

\* validateRelationshipRepository(repo, relationships, now).summary.bySeverity:
\* an endpoint pair the rule table does not allow is an Error (structural);
\* a DEPENDS_ON without a dependencyStrength classification is a Warning.
validateRelationshipRepository(store, rels) ==
    LET illegal(r) ==
            LET rule == getRelationshipEndpointRule(r.relationshipType)
                source == getElementById(store, r.sourceElementId)
                target == getElementById(store, r.targetElementId)
            IN \/ IsNone(rule) \/ IsNone(source) \/ IsNone(target)
               \/ /\ IsSome(rule) /\ IsSome(source) /\ IsSome(target)
                  /\ \/ Val(source).elementType \notin Val(rule).from
                     \/ Val(target).elementType \notin Val(rule).to
        unclassified(r) ==
            /\ r.relationshipType = "DEPENDS_ON"
            /\ r.dependencyStrength \in {JsUndefined, ""}
    IN [Error |-> Cardinality({i \in 1..Len(rels) : illegal(rels[i])}),
        Warning |-> Cardinality({i \in 1..Len(rels) : unclassified(rels[i])})]

\* ------------------------------------------------------ governanceValidation
getString(value) == IF value \in {JsUndefined, JsTrue} THEN "" ELSE value

\* (value as any) || fallback
OrDefault(value, fallback) == IF value \in {JsUndefined, ""} THEN fallback ELSE value

\* getLifecycleStateFromAttributes(attrs), as an option
getLifecycleStateFromAttributes(attrs) ==
    IF getString(AttrGet(attrs, "lifecycleState")) # ""
    THEN Some(AttrGet(attrs, "lifecycleState"))
    ELSE None

toBackendElementType(eaType) ==
    IF eaType \in {"Capability", "SubCapability", "CapabilityCategory"} THEN "Capability"
    ELSE eaType

\* The collection buildGovernanceDebt inserts an object of this type into,
\* as an option: an object of any other type is not inserted at all.
CollectionOfObjectType(type) ==
    CASE type \in {"Capability", "CapabilityCategory", "SubCapability"} -> Some("capabilities")
      [] type = "Application" -> Some("applications")
      [] type = "Technology" -> Some("technologies")
      [] type = "BusinessProcess" -> Some("businessProcesses")
      [] type = "Programme" -> Some("programmes")
      [] OTHER -> None

\* The typed element buildGovernanceDebt projects an object into (the fields
\* the validation scans read).
ProjectElement(obj) ==
    LET attrs == obj.attributes
        coll == Val(CollectionOfObjectType(obj.type))
    IN [id |-> obj.id,
        name |-> IF getString(AttrGet(attrs, "name")) # ""
                 THEN AttrGet(attrs, "name") ELSE obj.id,
        elementType |-> expectedElementType(coll),
        layer |-> IF coll = "programmes" THEN "Strategy"
                  ELSE ObjectTypeLayer(expectedElementType(coll)),
        lifecycleStatus |-> OrDefault(AttrGet(attrs, "lifecycleStatus"), "Active"),
        ownerRole |-> getString(AttrGet(attrs, "ownerRole")),
        ownerName |-> getString(AttrGet(attrs, "ownerName")),
        owningUnit |-> getString(AttrGet(attrs, "owningUnit")),
        approvalStatus |-> OrDefault(AttrGet(attrs, "approvalStatus"), "Draft")]

\* The first loop of buildGovernanceDebt over objects[i..]: the typed store.
RECURSIVE ProjectObjects(_, _, _)
ProjectObjects(objects, i, store) ==
    IF i > Len(objects) THEN store
    ELSE IF IsNone(CollectionOfObjectType(objects[i].type))
    THEN ProjectObjects(objects, i + 1, store)
    ELSE ProjectObjects(objects, i + 1,
            addElement(store, Val(CollectionOfObjectType(objects[i].type)),
                       ProjectElement(objects[i])).store)

\* A relationship loop that hands every relationship to the typed store,
\* whether its endpoints are supported or not.
RECURSIVE ProjectRelationships_TriesEveryPair(_, _, _, _, _)
ProjectRelationships_TriesEveryPair(repo, store, supportedElementIds, i, acc) ==
    IF i > Len(repo.relationships) THEN acc
    ELSE
      LET rel == repo.relationships[i]
          sourceId == Trim(rel.fromId)
          targetId == Trim(rel.toId)
          typeOfId(id) == IF IsSome(ObjectById(repo.objects, id))
                          THEN Val(ObjectById(repo.objects, id)).type ELSE ""
          relationshipAny ==
              [id |-> i - 1,
               relationshipType |-> Trim(rel.type),
               sourceElementId |-> sourceId,
               sourceElementType |-> toBackendElementType(typeOfId(sourceId)),
               targetElementId |-> targetId,
               targetElementType |-> toBackendElementType(typeOfId(targetId)),
               dependencyStrength |->
                   IF Trim(rel.type) = "DEPENDS_ON"
                   THEN AttrGet(rel.attributes, "dependencyStrength")
                   ELSE JsUndefined]
          addRes == addRelationship(acc.rels, store, relationshipAny)
      IN IF sourceId = "" \/ targetId = ""
         THEN ProjectRelationships_TriesEveryPair(repo, store, supportedElementIds, i + 1, acc)
         ELSE ProjectRelationships_TriesEveryPair(repo, store, supportedElementIds, i + 1,
                [rels |-> addRes.rels,
                 invalid |-> IF addRes.ok THEN acc.invalid
                             ELSE Append(acc.invalid,
                                         <<relationshipAny.relationshipType, sourceId,
                                           targetId, addRes.error>>)])

\* The second loop of buildGovernanceDebt over relationships[i..]:
\* acc = [rels, invalid], the typed relationships and the rejected inserts.
RECURSIVE ProjectRelationships(_, _, _, _, _)
ProjectRelationships(repo, store, supportedElementIds, i, acc) ==
    IF i > Len(repo.relationships) THEN acc
    ELSE
      LET rel == repo.relationships[i]
          sourceId == Trim(rel.fromId)
          targetId == Trim(rel.toId)
          typeOfId(id) == IF IsSome(ObjectById(repo.objects, id))
                          THEN Val(ObjectById(repo.objects, id)).type ELSE ""
          relationshipAny ==
              [id |-> i - 1,
               relationshipType |-> Trim(rel.type),
               sourceElementId |-> sourceId,
               sourceElementType |-> toBackendElementType(typeOfId(sourceId)),
               targetElementId |-> targetId,
               targetElementType |-> toBackendElementType(typeOfId(targetId)),
               dependencyStrength |->
                   IF Trim(rel.type) = "DEPENDS_ON"
                   THEN AttrGet(rel.attributes, "dependencyStrength")
                   ELSE JsUndefined]
          addRes == addRelationship(acc.rels, store, relationshipAny)
      IN IF sourceId = "" \/ targetId = ""
         THEN ProjectRelationships(repo, store, supportedElementIds, i + 1, acc)
         ELSE IF sourceId \notin supportedElementIds \/ targetId \notin supportedElementIds
         THEN ProjectRelationships(repo, store, supportedElementIds, i + 1, acc)
         ELSE ProjectRelationships(repo, store, supportedElementIds, i + 1,
                [rels |-> addRes.rels,
                 invalid |-> IF addRes.ok THEN acc.invalid
                             ELSE Append(acc.invalid,
                                         <<relationshipAny.relationshipType, sourceId,
                                           targetId, addRes.error>>)])

\* A lifecycle check that looks at soft-deleted objects too.
lifecycleTagMissingIds_CountsDeleted(objects, lifecycleCoverage) ==
    SelectSeq(objects,
        LAMBDA obj : /\ lifecycleCoverage = "Both"
                     /\ IsNone(getLifecycleStateFromAttributes(obj.attributes)))

\* lifecycleTagMissingIds after the object loop: the objects that are not
\* soft-deleted and have no lifecycle state, looked for under coverage Both.
lifecycleTagMissingIds(objects, lifecycleCoverage) ==
    SelectSeq(objects,
        LAMBDA obj : /\ lifecycleCoverage = "Both"
                     /\ AttrGet(obj.attributes, "_deleted") # JsTrue
                     /\ IsNone(getLifecycleStateFromAttributes(obj.attributes)))

\* buildGovernanceDebt(eaRepository, now, {lifecycleCoverage}).summary
buildGovernanceDebt(eaRepository, lifecycleCoverage) ==
    LET objects == eaRepository.objects
        repo == ProjectObjects(objects, 1, EmptyArchitectureRepository)
        supportedElementIds ==
            UNION {{e.id : e \in Range(getElementsByType(repo, c))} :
                      c \in RepositoryCollectionTypes}
        projected == ProjectRelationships(eaRepository, repo, supportedElementIds, 1,
                                          [rels |-> <<>>, invalid |-> <<>>])
        repoReport == validateArchitectureRepository(repo)
        relationshipReport == validateRelationshipRepository(repo, projected.rels)
        mandatoryFindingCount == repoReport
        relationshipErrorCount == relationshipReport.Error
        relationshipWarningCount == relationshipReport.Warning
        invalidRelationshipInsertCount == Len(projected.invalid)
        lifecycleTagMissingCount == Len(lifecycleTagMissingIds(objects, lifecycleCoverage))
    IN [mandatoryFindingCount |-> mandatoryFindingCount,
        relationshipErrorCount |-> relationshipErrorCount,
        relationshipWarningCount |-> relationshipWarningCount,
        invalidRelationshipInsertCount |-> invalidRelationshipInsertCount,
        lifecycleTagMissingCount |-> lifecycleTagMissingCount,
        total |-> mandatoryFindingCount + relationshipErrorCount
                  + relationshipWarningCount + invalidRelationshipInsertCount
                  + lifecycleTagMissingCount]

\* ===================================================== EaRepositoryProvider
VARIABLES
    eaRepository,          \* useState: the live repository (option)
    metadata,              \* useState: the live metadata (option)
    canUndo,               \* useState
    canRedo,               \* useState
    undoStackRef,          \* useRef<string[]>: oldest first
    redoStackRef,          \* useRef<string[]>: most recent first
    lastSerializedRef,     \* useRef<string | null> (option)
    suppressHistoryRef,    \* useRef(false)
    lastSaveBlockedKeyRef, \* useRef<string | null> (option)
    saveBlockedModalRef,   \* useRef: TRUE when it holds a modal handle
    lastAdvisoryWarnKeyRef,\* useRef<string | null> (option)
    renderedScope,         \* metadata?.architectureScope closed over by setEaRepository
    effectPending,         \* a state change is committed and the effect has not run yet
    localStorage,          \* the slot STORAGE_KEY (option)
    governanceLog,         \* entries handed to appendGovernanceLog
    noticesOpen,           \* number of blocking dialogs on screen
    clock,                 \* Date.now()
    lastOp,                \* the operation called last and what it returned
    pendingOps,            \* the operations called since the effect last ran
    opsLeft,               \* operations the run may still perform
    scenario               \* bookkeeping of the scenario specifications

provider ==
    <<eaRepository, metadata, canUndo, canRedo, undoStackRef, redoStackRef,
      lastSerializedRef, suppressHistoryRef, renderedScope, effectPending>>

gate ==
    <<lastSaveBlockedKeyRef, saveBlockedModalRef, lastAdvisoryWarnKeyRef,
      localStorage, governanceLog, noticesOpen>>

vars == <<provider, gate, clock, lastOp, pendingOps, opsLeft, scenario>>

JsNull == "#null"

\* metadata?.architectureScope ?? null
ScopeOf(meta) == IF IsSome(meta) THEN Val(meta).architectureScope ELSE JsNull

\* JSON.stringify(serializeRepository(repo, metadata)) when the clock reads now
Snapshot(repo, meta, now) == JsonStringify(serializeRepository(repo, meta, now))

\* A push that drops the entry just pushed, not the oldest, when over the cap.
PushBounded_EvictsNewest(stack, raw) ==
    LET pushed == Append(stack, raw)
    IN IF Len(pushed) > HISTORY_LIMIT
       THEN SubSeq(pushed, 1, Len(pushed) - 1) ELSE pushed

\* stack.push(raw); if (stack.length > HISTORY_LIMIT) stack.shift()
PushBounded(stack, raw) ==
    LET pushed == Append(stack, raw)
    IN IF Len(pushed) > HISTORY_LIMIT THEN Tail(pushed) ELSE pushed

\* A push at the back where the code unshifts at the front.
UnshiftBounded_PushesBack(stack, raw) ==
    LET pushed == Append(stack, raw)
    IN IF Len(pushed) > HISTORY_LIMIT
       THEN SubSeq(pushed, 1, Len(pushed) - 1) ELSE pushed

\* stack.unshift(raw); if (stack.length > HISTORY_LIMIT) stack.pop()
UnshiftBounded(stack, raw) ==
    LET unshifted == <<raw>> \o stack
    IN IF Len(unshifted) > HISTORY_LIMIT
       THEN SubSeq(unshifted, 1, Len(unshifted) - 1) ELSE unshifted

\* applySerialized(raw): what it would apply, [ok, repo, metadata]
applySerialized(raw) ==
    IF ~JsonParses(raw) THEN [ok |-> FALSE, repo |-> None, metadata |-> None]
    ELSE tryDeserializeRepository(JsonParse(raw))

\* An event handler can call an operation: the mount effect has run (React
\* runs it before it handles any event) and the run has operations left.
\* Operations called by one handler are batched: the effect runs once, after.
CanCall == opsLeft > 0 /\ "mount" \notin pendingOps

Called(op, returned) ==
    /\ lastOp' = [op |-> op, returned |-> returned]
    /\ pendingOps' = pendingOps \cup {op}
    /\ opsLeft' = opsLeft - 1

\* ----------------------------------------------------------- setEaRepository
\* The text of the message.warning that setEaRepository shows on a rejection.
ReadOnlyWarning(scope) ==
    IF scope = "Domain"
    THEN "Read-only in Domain scope: only Application + Technology layers are editable."
    ELSE "Read-only in Business Unit scope: only Business + Application layers are editable."

\* next is the resolved value (an option); a non-null value is a new object.
\* A setEaRepository whose rejection hands React a new state, so that the
\* effect runs again.
setEaRepository_RejectionRerenders(next) ==
    /\ CanCall
    /\ IF IsNone(next)
       THEN /\ eaRepository' = None
            /\ effectPending' = (effectPending \/ IsSome(eaRepository))
            /\ Called("setEaRepository", "set")
       ELSE IF ~hasReadOnlyObjectChanges(eaRepository, next, renderedScope)
       THEN /\ eaRepository' = next
            /\ effectPending' = TRUE
            /\ Called("setEaRepository", "set")
       ELSE \* message.warning(...); the state stays prev
            /\ effectPending' = TRUE
            /\ UNCHANGED <<eaRepository, pendingOps>>
            /\ lastOp' = [op |-> "setEaRepository", returned |-> "read-only"]
            /\ opsLeft' = opsLeft - 1
    /\ UNCHANGED <<metadata, canUndo, canRedo, undoStackRef, redoStackRef,
                   lastSerializedRef, suppressHistoryRef, renderedScope>>
    /\ UNCHANGED <<gate, clock>>

setEaRepository(next) ==
    /\ CanCall
    /\ IF IsNone(next)
       THEN /\ eaRepository' = None
            /\ effectPending' = (effectPending \/ IsSome(eaRepository))
            /\ Called("setEaRepository", "set")
       ELSE IF ~hasReadOnlyObjectChanges(eaRepository, next, renderedScope)
       THEN /\ eaRepository' = next
            /\ effectPending' = TRUE
            /\ Called("setEaRepository", "set")
       ELSE \* message.warning(...); the state stays prev
            /\ UNCHANGED <<eaRepository, effectPending, pendingOps>>
            /\ lastOp' = [op |-> "setEaRepository", returned |-> "read-only"]
            /\ opsLeft' = opsLeft - 1
    /\ UNCHANGED <<metadata, canUndo, canRedo, undoStackRef, redoStackRef,
                   lastSerializedRef, suppressHistoryRef, renderedScope>>
    /\ UNCHANGED <<gate, clock>>

\* ------------------------------------------------------- createNewRepository
\* input: the metadata without createdAt.
createNewRepository(input) ==
    /\ CanCall
    /\ LET createdAt == clock
           candidate == [repositoryName |-> input.repositoryName,
                         organizationName |-> input.organizationName,
                         architectureScope |-> input.architectureScope,
                         referenceFramework |-> input.referenceFramework,
                         governanceMode |-> input.governanceMode,
                         lifecycleCoverage |-> input.lifecycleCoverage,
                         timeHorizon |-> input.timeHorizon,
                         createdAt |-> createdAt]
           metaRes == validateRepositoryMetadata(Some(candidate))
       IN IF ~metaRes.ok
          THEN /\ UNCHANGED <<provider, pendingOps>>
               /\ lastOp' = [op |-> "createNewRepository", returned |-> "error"]
               /\ opsLeft' = opsLeft - 1
          ELSE /\ undoStackRef' = <<>>
               /\ redoStackRef' = <<>>
               /\ canUndo' = FALSE
               /\ canRedo' = FALSE
               /\ eaRepository' = Some(EmptyEaRepository)
               /\ metadata' = Some(freezeMetadata(Val(metaRes.metadata)))
               /\ effectPending' = TRUE
               /\ UNCHANGED <<lastSerializedRef, suppressHistoryRef, renderedScope>>
               /\ Called("createNewRepository", "ok")
    /\ UNCHANGED <<gate, clock>>

\* ------------------------------------------------ loadRepositoryFromJsonText
\* tryDeserializeRepository(JSON.parse(jsonText)) inside the try block: a
\* text that is no JSON makes JSON.parse throw a SyntaxError, whose message
\* (never empty) is the error returned.
ParseAndDeserialize(jsonText) ==
    IF ~JsonParses(jsonText)
    THEN [ok |-> FALSE, repo |-> None, metadata |-> None, error |-> "SyntaxError"]
    ELSE tryDeserializeRepository(JsonParse(jsonText))

\* A load that makes the new history root before it reads the text.
loadRepositoryFromJsonText_ResetsHistoryFirst(jsonText) ==
    /\ CanCall
    /\ LET res == ParseAndDeserialize(jsonText)
       IN IF ~res.ok
          THEN /\ undoStackRef' = <<>>
               /\ redoStackRef' = <<>>
               /\ canUndo' = FALSE
               /\ canRedo' = FALSE
               /\ UNCHANGED <<eaRepository, metadata, lastSerializedRef,
                              suppressHistoryRef, renderedScope, effectPending, pendingOps>>
               /\ lastOp' = [op |-> "loadRepositoryFromJsonText", returned |-> "error"]
               /\ opsLeft' = opsLeft - 1
          ELSE /\ undoStackRef' = <<>>
               /\ redoStackRef' = <<>>
               /\ canUndo' = FALSE
               /\ canRedo' = FALSE
               /\ eaRepository' = res.repo
               /\ metadata' = Some(freezeMetadata(Val(res.metadata)))
               /\ effectPending' = TRUE
               /\ UNCHANGED <<lastSerializedRef, suppressHistoryRef, renderedScope>>
               /\ Called("loadRepositoryFromJsonText", "ok")
    /\ UNCHANGED <<gate, clock>>

loadRepositoryFromJsonText(jsonText) ==
    /\ CanCall
    /\ LET res == ParseAndDeserialize(jsonText)
       IN IF ~res.ok
          THEN /\ UNCHANGED <<provider, pendingOps>>
               /\ lastOp' = [op |-> "loadRepositoryFromJsonText", returned |-> "error"]
               /\ opsLeft' = opsLeft - 1
          ELSE /\ undoStackRef' = <<>>
               /\ redoStackRef' = <<>>
               /\ canUndo' = FALSE
               /\ canRedo' = FALSE
               /\ eaRepository' = res.repo
               /\ metadata' = Some(freezeMetadata(Val(res.metadata)))
               /\ effectPending' = TRUE
               /\ UNCHANGED <<lastSerializedRef, suppressHistoryRef, renderedScope>>
               /\ Called("loadRepositoryFromJsonText", "ok")
    /\ UNCHANGED <<gate, clock>>

\* ----------------------------------------------------------- clearRepository
clearRepository ==
    /\ CanCall
    /\ undoStackRef' = <<>>
    /\ redoStackRef' = <<>>
    /\ canUndo' = FALSE
    /\ canRedo' = FALSE
    /\ eaRepository' = None
    /\ metadata' = None
    /\ effectPending' = (effectPending \/ IsSome(eaRepository) \/ IsSome(metadata))
    /\ UNCHANGED <<lastSerializedRef, suppressHistoryRef, renderedScope>>
    /\ Called("clearRepository", "void")
    /\ UNCHANGED <<gate, clock>>

\* ---------------------------------------------------------------------- undo
\* An undo that saves the current text on the redo stack before it looks at
\* the undo stack.
UndoStacks_SavesCurrentFirst(undoStack, redoStack, currentRaw) ==
    LET saved == IF IsSome(currentRaw)
                 THEN UnshiftBounded(redoStack, Val(currentRaw)) ELSE redoStack
    IN IF undoStack = <<>>
       THEN [raw |-> None, undoStack |-> undoStack, redoStack |-> saved]
       ELSE [raw |-> Some(undoStack[Len(undoStack)]),
             undoStack |-> SubSeq(undoStack, 1, Len(undoStack) - 1),
             redoStack |-> saved]

\* The first half of undo(): pop the most recent entry; when there is one,
\* put the current text in front of the redo stack.  raw is the popped entry.
UndoStacks(undoStack, redoStack, currentRaw) ==
    IF undoStack = <<>>
    THEN [raw |-> None, undoStack |-> undoStack, redoStack |-> redoStack]
    ELSE [raw |-> Some(undoStack[Len(undoStack)]),
          undoStack |-> SubSeq(undoStack, 1, Len(undoStack) - 1),
          redoStack |-> IF IsSome(currentRaw)
                        THEN UnshiftBounded(redoStack, Val(currentRaw))
                        ELSE redoStack]

\* An undo() that leaves canUndo as it was after a successful restore.
undo_KeepsCanUndo ==
    /\ CanCall
    /\ LET step == UndoStacks(undoStackRef, redoStackRef, lastSerializedRef)
           res == IF IsSome(step.raw) THEN applySerialized(Val(step.raw))
                  ELSE [ok |-> FALSE, repo |-> None, metadata |-> None]
       IN /\ undoStackRef' = step.undoStack
          /\ redoStackRef' = step.redoStack
          /\ IF IsNone(step.raw)
             THEN /\ canUndo' = FALSE
                  /\ UNCHANGED <<eaRepository, metadata, canRedo, lastSerializedRef,
                                 suppressHistoryRef, effectPending, pendingOps>>
                  /\ lastOp' = [op |-> "undo", returned |-> "false"]
                  /\ opsLeft' = opsLeft - 1
             ELSE IF ~res.ok
             THEN /\ UNCHANGED <<eaRepository, metadata, canUndo, canRedo, lastSerializedRef,
                                 suppressHistoryRef, effectPending, pendingOps>>
                  /\ lastOp' = [op |-> "undo", returned |-> "false"]
                  /\ opsLeft' = opsLeft - 1
             ELSE /\ suppressHistoryRef' = TRUE
                  /\ eaRepository' = res.repo
                  /\ metadata' = Some(freezeMetadata(Val(res.metadata)))
                  /\ effectPending' = TRUE
                  /\ lastSerializedRef' = step.raw
                  /\ canUndo' = canUndo
                  /\ canRedo' = (Len(step.redoStack) > 0)
                  /\ Called("undo", "true")
    /\ UNCHANGED <<renderedScope, gate, clock>>

undo ==
    /\ CanCall
    /\ LET step == UndoStacks(undoStackRef, redoStackRef, lastSerializedRef)
           res == IF IsSome(step.raw) THEN applySerialized(Val(step.raw))
                  ELSE [ok |-> FALSE, repo |-> None, metadata |-> None]
       IN /\ undoStackRef' = step.undoStack
          /\ redoStackRef' = step.redoStack
          /\ IF IsNone(step.raw)
             THEN /\ canUndo' = FALSE
                  /\ UNCHANGED <<eaRepository, metadata, canRedo, lastSerializedRef,
                                 suppressHistoryRef, effectPending, pendingOps>>
                  /\ lastOp' = [op |-> "undo", returned |-> "false"]
                  /\ opsLeft' = opsLeft - 1
             ELSE IF ~res.ok
             THEN /\ UNCHANGED <<eaRepository, metadata, canUndo, canRedo, lastSerializedRef,
                                 suppressHistoryRef, effectPending, pendingOps>>
                  /\ lastOp' = [op |-> "undo", returned |-> "false"]
                  /\ opsLeft' = opsLeft - 1
             ELSE /\ suppressHistoryRef' = TRUE
                  /\ eaRepository' = res.repo
                  /\ metadata' = Some(freezeMetadata(Val(res.metadata)))
                  /\ effectPending' = TRUE
                  /\ lastSerializedRef' = step.raw
                  /\ canUndo' = (Len(step.undoStack) > 0)
                  /\ canRedo' = (Len(step.redoStack) > 0)
                  /\ Called("undo", "true")
    /\ UNCHANGED <<renderedScope, gate, clock>>

\* ---------------------------------------------------------------------- redo
\* The first half of redo(): shift the front entry; when there is one, push
\* the current text onto the undo stack.  raw is the shifted entry.
RedoStacks(undoStack, redoStack, currentRaw) ==
    IF redoStack = <<>>
    THEN [raw |-> None, undoStack |-> undoStack, redoStack |-> redoStack]
    ELSE [raw |-> Some(Head(redoStack)),
          redoStack |-> Tail(redoStack),
          undoStack |-> IF IsSome(currentRaw)
                        THEN PushBounded(undoStack, Val(currentRaw))
                        ELSE undoStack]

redo ==
    /\ CanCall
    /\ LET step == RedoStacks(undoStackRef, redoStackRef, lastSerializedRef)
           res == IF IsSome(step.raw) THEN applySerialized(Val(step.raw))
                  ELSE [ok |-> FALSE, repo |-> None, metadata |-> None]
       IN /\ undoStackRef' = step.undoStack
          /\ redoStackRef' = step.redoStack
          /\ IF IsNone(step.raw)
             THEN /\ canRedo' = FALSE
                  /\ UNCHANGED <<eaRepository, metadata, canUndo, lastSerializedRef,
                                 suppressHistoryRef, effectPending, pendingOps>>
                  /\ lastOp' = [op |-> "redo", returned |-> "false"]
                  /\ opsLeft' = opsLeft - 1
             ELSE IF ~res.ok
             THEN /\ UNCHANGED <<eaRepository, metadata, canUndo, canRedo, lastSerializedRef,
                                 suppressHistoryRef, effectPending, pendingOps>>
                  /\ lastOp' = [op |-> "redo", returned |-> "false"]
                  /\ opsLeft' = opsLeft - 1
             ELSE /\ suppressHistoryRef' = TRUE
                  /\ eaRepository' = res.repo
                  /\ metadata' = Some(freezeMetadata(Val(res.metadata)))
                  /\ effectPending' = TRUE
                  /\ lastSerializedRef' = step.raw
                  /\ canUndo' = (Len(step.undoStack) > 0)
                  /\ canRedo' = (Len(step.redoStack) > 0)
                  /\ Called("redo", "true")
    /\ UNCHANGED <<renderedScope, gate, clock>>

\* ------------------------------------------------- the persistence effect
\* `${mandatoryFindingCount}|${invalidRelationshipInsertCount}|...`
DebtKey(summary) ==
    <<summary.mandatoryFindingCount, summary.invalidRelationshipInsertCount,
      summary.relationshipErrorCount, summary.relationshipWarningCount,
      summary.lifecycleTagMissingCount>>

\* A `blocked` that forgets the mandatory findings.
StrictBlocked_IgnoresMandatory(summary) ==
    \/ summary.relationshipErrorCount > 0
    \/ summary.invalidRelationshipInsertCount > 0
    \/ summary.lifecycleTagMissingCount > 0

\* A `blocked` that forgets the missing lifecycle tags.
StrictBlocked_IgnoresLifecycleTags(summary) ==
    \/ summary.mandatoryFindingCount > 0
    \/ summary.relationshipErrorCount > 0
    \/ summary.invalidRelationshipInsertCount > 0

\* The Strict branch's `blocked`
StrictBlocked(summary) ==
    \/ summary.mandatoryFindingCount > 0
    \/ summary.relationshipErrorCount > 0
    \/ summary.invalidRelationshipInsertCount > 0
    \/ summary.lifecycleTagMissingCount > 0

\* A history tracking that pushes the new text instead of the previous one.
TrackHistory_PushesNext(nextSerialized) ==
    LET prevSerialized == lastSerializedRef
        push == /\ ~suppressHistoryRef
                /\ IsSome(prevSerialized)
                /\ Val(prevSerialized) # nextSerialized
    IN /\ undoStackRef' = IF push THEN PushBounded(undoStackRef, nextSerialized)
                          ELSE undoStackRef
       /\ redoStackRef' = IF push THEN <<>> ELSE redoStackRef
       /\ canUndo' = IF push THEN TRUE ELSE canUndo
       /\ canRedo' = IF push THEN FALSE ELSE canRedo
       /\ suppressHistoryRef' = FALSE
       /\ lastSerializedRef' = Some(nextSerialized)

\* A history tracking that does not look at suppressHistoryRef.
TrackHistory_NeverSuppressed(nextSerialized) ==
    LET prevSerialized == lastSerializedRef
        push == /\ IsSome(prevSerialized)
                /\ Val(prevSerialized) # nextSerialized
    IN /\ undoStackRef' = IF push THEN PushBounded(undoStackRef, Val(prevSerialized))
                          ELSE undoStackRef
       /\ redoStackRef' = IF push THEN <<>> ELSE redoStackRef
       /\ canUndo' = IF push THEN TRUE ELSE canUndo
       /\ canRedo' = IF push THEN FALSE ELSE canRedo
       /\ suppressHistoryRef' = FALSE
       /\ lastSerializedRef' = Some(nextSerialized)

\* The history tracking of the effect: the stacks and flags after it, given
\* the text just computed.
TrackHistory(nextSerialized) ==
    LET prevSerialized == lastSerializedRef
        push == /\ ~suppressHistoryRef
                /\ IsSome(prevSerialized)
                /\ Val(prevSerialized) # nextSerialized
    IN /\ undoStackRef' = IF push THEN PushBounded(undoStackRef, Val(prevSerialized))
                          ELSE undoStackRef
       /\ redoStackRef' = IF push THEN <<>> ELSE redoStackRef
       /\ canUndo' = IF push THEN TRUE ELSE canUndo
       /\ canRedo' = IF push THEN FALSE ELSE canRedo
       /\ suppressHistoryRef' = FALSE
       /\ lastSerializedRef' = Some(nextSerialized)

\* localStorage.setItem(STORAGE_KEY, nextSerialized); a throw is swallowed.
SetItem(nextSerialized, quotaExceeded) ==
    localStorage' = IF quotaExceeded THEN localStorage ELSE Some(nextSerialized)

\* A Strict block that logs and opens a dialog at every settle.
StrictBlock_EverySettle(key) ==
    /\ lastSaveBlockedKeyRef' = Some(key)
    /\ governanceLog' = Append(governanceLog, [type |-> "save.blocked", key |-> key])
    /\ saveBlockedModalRef' = TRUE
    /\ noticesOpen' = (IF saveBlockedModalRef THEN noticesOpen - 1 ELSE noticesOpen) + 1
    /\ UNCHANGED <<lastAdvisoryWarnKeyRef, localStorage>>

\* The Strict branch when the debt blocks: log and dialog once per key, no save.
StrictBlock(key) ==
    /\ IF lastSaveBlockedKeyRef # Some(key)
       THEN /\ lastSaveBlockedKeyRef' = Some(key)
            /\ governanceLog' = Append(governanceLog, [type |-> "save.blocked", key |-> key])
            /\ saveBlockedModalRef' = TRUE
            /\ noticesOpen' = (IF saveBlockedModalRef THEN noticesOpen - 1 ELSE noticesOpen) + 1
       ELSE UNCHANGED <<lastSaveBlockedKeyRef, governanceLog, saveBlockedModalRef, noticesOpen>>
    /\ UNCHANGED <<lastAdvisoryWarnKeyRef, localStorage>>

\* A Strict pass that re-enables saving but leaves the write to the next settle.
StrictPass_SkipsWriteOnRecovery(nextSerialized, quotaExceeded) ==
    /\ IF IsSome(lastSaveBlockedKeyRef)
       THEN /\ lastSaveBlockedKeyRef' = None
            /\ saveBlockedModalRef' = FALSE
            /\ noticesOpen' = IF saveBlockedModalRef THEN noticesOpen - 1 ELSE noticesOpen
            /\ UNCHANGED localStorage
       ELSE /\ UNCHANGED <<lastSaveBlockedKeyRef, saveBlockedModalRef, noticesOpen>>
            /\ SetItem(nextSerialized, quotaExceeded)
    /\ UNCHANGED <<lastAdvisoryWarnKeyRef, governanceLog>>

\* The Strict branch when the debt does not block: re-enable saving, then save.
StrictPass(nextSerialized, quotaExceeded) ==
    /\ IF IsSome(lastSaveBlockedKeyRef)
       THEN /\ lastSaveBlockedKeyRef' = None
            /\ saveBlockedModalRef' = FALSE
            /\ noticesOpen' = IF saveBlockedModalRef THEN noticesOpen - 1 ELSE noticesOpen
       ELSE UNCHANGED <<lastSaveBlockedKeyRef, saveBlockedModalRef, noticesOpen>>
    /\ UNCHANGED <<lastAdvisoryWarnKeyRef, governanceLog>>
    /\ SetItem(nextSerialized, quotaExceeded)

\* An Advisory pass that warns at every settle with debt.
AdvisoryPass_WarnsEverySettle(summary, key, nextSerialized, quotaExceeded) ==
    /\ IF summary.total > 0
       THEN /\ lastAdvisoryWarnKeyRef' = Some(key)
            /\ governanceLog' = Append(governanceLog, [type |-> "save.warned", key |-> key])
       ELSE /\ lastAdvisoryWarnKeyRef' = None
            /\ UNCHANGED governanceLog
    /\ UNCHANGED <<lastSaveBlockedKeyRef, saveBlockedModalRef, noticesOpen>>
    /\ SetItem(nextSerialized, quotaExceeded)

\* An Advisory pass that saves only a repository without debt.
AdvisoryPass_SavesCleanOnly(summary, key, nextSerialized, quotaExceeded) ==
    /\ IF summary.total > 0 /\ lastAdvisoryWarnKeyRef # Some(key)
       THEN /\ lastAdvisoryWarnKeyRef' = Some(key)
            /\ governanceLog' = Append(governanceLog, [type |-> "save.warned", key |-> key])
       ELSE /\ lastAdvisoryWarnKeyRef' =
                   IF summary.total = 0 THEN None ELSE lastAdvisoryWarnKeyRef
            /\ UNCHANGED governanceLog
    /\ UNCHANGED <<lastSaveBlockedKeyRef, saveBlockedModalRef, noticesOpen>>
    /\ IF summary.total > 0 THEN UNCHANGED localStorage
       ELSE SetItem(nextSerialized, quotaExceeded)

\* The Advisory branch: warn once per key, then save.
AdvisoryPass(summary, key, nextSerialized, quotaExceeded) ==
    /\ IF summary.total > 0 /\ lastAdvisoryWarnKeyRef # Some(key)
       THEN /\ lastAdvisoryWarnKeyRef' = Some(key)
            /\ governanceLog' = Append(governanceLog, [type |-> "save.warned", key |-> key])
       ELSE /\ lastAdvisoryWarnKeyRef' =
                   IF summary.total = 0 THEN None ELSE lastAdvisoryWarnKeyRef
            /\ UNCHANGED governanceLog
    /\ UNCHANGED <<lastSaveBlockedKeyRef, saveBlockedModalRef, noticesOpen>>
    /\ SetItem(nextSerialized, quotaExceeded)

\* A gate that takes every mode but Strict for Advisory.
GovernanceGate_WarnsUnlessStrict(governanceMode, summary, key, nextSerialized, quotaExceeded) ==
    IF governanceMode = "Strict"
    THEN IF StrictBlocked(summary)
         THEN StrictBlock(key)
         ELSE StrictPass(nextSerialized, quotaExceeded)
    ELSE AdvisoryPass(summary, key, nextSerialized, quotaExceeded)

\* The governance gate of the effect and the write that follows it: the debt
\* is looked at in Strict and Advisory mode only.
GovernanceGate(governanceMode, summary, key, nextSerialized, quotaExceeded) ==
    IF governanceMode = "Strict"
    THEN IF StrictBlocked(summary)
         THEN StrictBlock(key)
         ELSE StrictPass(nextSerialized, quotaExceeded)
    ELSE IF governanceMode = "Advisory"
    THEN AdvisoryPass(summary, key, nextSerialized, quotaExceeded)
    ELSE /\ UNCHANGED <<lastSaveBlockedKeyRef, saveBlockedModalRef,
                        lastAdvisoryWarnKeyRef, governanceLog, noticesOpen>>
         /\ SetItem(nextSerialized, quotaExceeded)

\* React.useEffect(..., [eaRepository, loading, metadata]): runs once the
\* committed state has changed; storageThrows: the storage call of this run
\* (setItem, or removeItem when there is nothing to persist) throws, and the
\* catch ends the effect there.
persistenceEffect(storageThrows) ==
    /\ effectPending
    /\ effectPending' = FALSE
    /\ pendingOps' = {}
    /\ renderedScope' = ScopeOf(metadata)
    /\ UNCHANGED <<eaRepository, metadata, clock, lastOp, opsLeft>>
    /\ IF IsNone(eaRepository) \/ IsNone(metadata)
       THEN /\ localStorage' = IF storageThrows THEN localStorage ELSE None
            /\ lastSerializedRef' = IF storageThrows THEN lastSerializedRef ELSE None
            /\ UNCHANGED <<canUndo, canRedo, undoStackRef, redoStackRef, suppressHistoryRef,
                           lastSaveBlockedKeyRef, saveBlockedModalRef,
                           lastAdvisoryWarnKeyRef, governanceLog, noticesOpen>>
       ELSE LET meta == Val(metadata)
                nextSerialized == Snapshot(Val(eaRepository), meta, clock)
                summary == buildGovernanceDebt(Val(eaRepository), meta.lifecycleCoverage)
                key == DebtKey(summary)
            IN /\ TrackHistory(nextSerialized)
               /\ GovernanceGate(meta.governanceMode, summary, key, nextSerialized,
                                 storageThrows)

\* The dialog's onOk: the user closes the blocking dialog.
saveBlockedModalOnOk ==
    /\ saveBlockedModalRef
    /\ saveBlockedModalRef' = FALSE
    /\ noticesOpen' = noticesOpen - 1
    /\ UNCHANGED <<provider, lastSaveBlockedKeyRef, lastAdvisoryWarnKeyRef, localStorage,
                   governanceLog, clock, lastOp, pendingOps, opsLeft>>

\* A millisecond passes: the next new Date() reads a later time.
TimePasses ==
    /\ clock' = clock + 1
    /\ UNCHANGED <<provider, gate, lastOp, pendingOps, opsLeft>>

Tick == clock < MaxClock /\ TimePasses

\* ==================================================================== inputs
OwnedAttributes ==
    <<<<"name", "Billing">>, <<"ownerRole", "cio">>, <<"ownerName", "ann">>,
      <<"owningUnit", "it">>, <<"lifecycleState", "As-Is">>>>

\* The same attributes, the keys inserted in another order.
ReorderedAttributes ==
    <<<<"ownerRole", "cio">>, <<"name", "Billing">>, <<"ownerName", "ann">>,
      <<"owningUnit", "it">>, <<"lifecycleState", "As-Is">>>>

\* No ownerRole.
UnownedAttributes ==
    <<<<"name", "Billing">>, <<"ownerName", "ann">>, <<"owningUnit", "it">>,
      <<"lifecycleState", "As-Is">>>>

EaObject(id, type, attributes) == [id |-> id, type |-> type, attributes |-> attributes]

EaRelationship(fromId, toId, type, attributes) ==
    [fromId |-> fromId, toId |-> toId, type |-> type, attributes |-> attributes]

RepoOwned == NewEaRepository(<<EaObject("a1", "Application", OwnedAttributes)>>, <<>>)

RepoReordered == NewEaRepository(<<EaObject("a1", "Application", ReorderedAttributes)>>, <<>>)

RepoUnowned == NewEaRepository(<<EaObject("a1", "Application", UnownedAttributes)>>, <<>>)

\* Two owned applications, the first depending on the second, the dependency
\* without a dependencyStrength.
RepoDepends ==
    NewEaRepository(<<EaObject("a1", "Application", OwnedAttributes),
                      EaObject("a2", "Application", OwnedAttributes)>>,
                    <<EaRelationship("a1", "a2", "DEPENDS_ON", <<>>)>>)

\* No lifecycleState.
UntaggedAttributes ==
    <<<<"name", "Billing">>, <<"ownerRole", "cio">>, <<"ownerName", "ann">>,
      <<"owningUnit", "it">>>>

RepoUntagged == NewEaRepository(<<EaObject("a1", "Application", UntaggedAttributes)>>, <<>>)

RepoInputs == {RepoOwned, RepoReordered, RepoUnowned, RepoDepends, RepoUntagged}

MetadataInput(name, scope, mode) ==
    [repositoryName |-> name, organizationName |-> "Org", architectureScope |-> scope,
     referenceFramework |-> "ArchiMate", governanceMode |-> mode,
     lifecycleCoverage |-> "Both", timeHorizon |-> "Current"]

MetadataInputs ==
    {MetadataInput("Repo", "Enterprise", "Strict"),
     MetadataInput("Repo", "Enterprise", "Advisory"),
     MetadataInput("Repo", "Enterprise", "None"),
     MetadataInput("", "Enterprise", "Strict")}

\* A snapshot file written by an earlier session, when the clock read 0.
StoredMetadata ==
    [repositoryName |-> "Repo", organizationName |-> "Org", architectureScope |-> "Enterprise",
     referenceFramework |-> "ArchiMate", governanceMode |-> "Strict",
     lifecycleCoverage |-> "Both", timeHorizon |-> "Current", createdAt |-> 0]

StoredSnapshot == Snapshot(RepoOwned, StoredMetadata, 0)

\* A text that is not JSON.
BrokenText == [wellFormed |-> FALSE, value |-> JsonParse(StoredSnapshot)]

JsonTextInputs == {StoredSnapshot, BrokenText}

\* ============================================================ specification
\* The provider after its first render: the state restored from the storage
\* slot (empty, or holding StoredSnapshot), the mount effect still to run.
InitFrom(stored) ==
    LET res == IF IsNone(stored) THEN [ok |-> FALSE, repo |-> None, metadata |-> None]
               ELSE applySerialized(Val(stored))
    IN /\ eaRepository = res.repo
       /\ metadata = res.metadata
       /\ canUndo = FALSE
       /\ canRedo = FALSE
       /\ undoStackRef = <<>>
       /\ redoStackRef = <<>>
       /\ lastSerializedRef = (IF res.ok THEN stored ELSE None)
       /\ suppressHistoryRef = FALSE
       /\ lastSaveBlockedKeyRef = None
       /\ saveBlockedModalRef = FALSE
       /\ lastAdvisoryWarnKeyRef = None
       /\ renderedScope = ScopeOf(res.metadata)
       /\ effectPending = TRUE
       /\ localStorage = stored
       /\ governanceLog = <<>>
       /\ noticesOpen = 0
       /\ clock = 0
       /\ lastOp = [op |-> "mount", returned |-> "void"]
       /\ pendingOps = {"mount"}

NoScenario == [phase |-> "none"]

Init ==
    /\ \E stored \in {None, Some(StoredSnapshot)} : InitFrom(stored)
    /\ opsLeft = MaxOps
    /\ scenario = NoScenario

SetEaRepository ==
    /\ \E next \in {None} \cup {Some(r) : r \in RepoInputs} : setEaRepository(next)
    /\ UNCHANGED scenario

CreateNewRepository ==
    /\ \E input \in MetadataInputs : createNewRepository(input)
    /\ UNCHANGED scenario

LoadRepositoryFromJsonText ==
    /\ \E jsonText \in JsonTextInputs : loadRepositoryFromJsonText(jsonText)
    /\ UNCHANGED scenario

ClearRepository == clearRepository /\ UNCHANGED scenario

Undo == undo /\ UNCHANGED scenario

Redo == redo /\ UNCHANGED scenario

\* The storage slot accepts every write in this specification.
PersistenceEffect == persistenceEffect(FALSE) /\ UNCHANGED scenario

SaveBlockedModalOnOk == saveBlockedModalOnOk /\ UNCHANGED scenario

ClockTick == Tick /\ UNCHANGED scenario

Next ==
    \/ SetEaRepository
    \/ CreateNewRepository
    \/ LoadRepositoryFromJsonText
    \/ ClearRepository
    \/ Undo
    \/ Redo
    \/ PersistenceEffect
    \/ SaveBlockedModalOnOk
    \/ ClockTick

Spec == Init /\ [][Next]_vars

\* =================================================================== claims
\* The step is a run of the persistence effect (a settle).
EffectRuns == effectPending /\ ~effectPending'

\* The step is a call of operation op.
Calls(op) == opsLeft' = opsLeft - 1 /\ lastOp'.op = op

\* A repository and its metadata are live.
Present == IsSome(eaRepository) /\ IsSome(metadata)

\* The text the effect computes in the current state.
LiveSnapshot == Snapshot(Val(eaRepository), Val(metadata), clock)

\* The debt the effect computes in the current state.
LiveDebt == buildGovernanceDebt(Val(eaRepository), Val(metadata).lifecycleCoverage)

\* The model a text holds, order of keys and of objects put aside:
\* metadata, objects with their attribute maps, relationships.
ModelOf(objects, relationships, meta) ==
    [metadata |-> meta,
     objects |-> {[id |-> objects[i].id, type |-> objects[i].type,
                   attributes |-> Range(objects[i].attributes)] : i \in 1..Len(objects)},
     relationships |-> [i \in 1..Len(relationships) |->
                          [fromId |-> relationships[i].fromId,
                           toId |-> relationships[i].toId,
                           type |-> relationships[i].type,
                           attributes |-> Range(relationships[i].attributes)]]]

ModelOfText(text) ==
    ModelOf(Val(text.value.objects), Val(text.value.relationships), Val(text.value.metadata))

LiveModel ==
    ModelOf(Val(eaRepository).objects, Val(eaRepository).relationships, Val(metadata))

\* ----------------------------------------------------------------------- C2
\* C2: every settle of an ordinary change (no undo/redo since the last settle)
\* whose text differs from the recorded one pushes the recorded text onto the
\* undo stack, clears the redo stack and records the new text.
C2_OrdinarySettlePushesPrevious ==
    [][(/\ EffectRuns
        /\ pendingOps \cap {"undo", "redo"} = {}
        /\ Present
        /\ IsSome(lastSerializedRef)
        /\ Val(lastSerializedRef) # LiveSnapshot)
       => (/\ Len(undoStackRef') = IF Len(undoStackRef) < HISTORY_LIMIT
                                   THEN Len(undoStackRef) + 1 ELSE HISTORY_LIMIT
           /\ undoStackRef'[Len(undoStackRef')] = Val(lastSerializedRef)
           /\ \A i \in 1..(Len(undoStackRef') - 1) :
                 undoStackRef'[i] = undoStackRef[i + Len(undoStackRef) + 1 - Len(undoStackRef')]
           /\ redoStackRef' = <<>>
           /\ lastSerializedRef' = Some(LiveSnapshot))]_vars

\* An edit of a repository has settled: the undo stack holds the text of the
\* model before the edit and the new text is the recorded one.
C2_Witness ==
    /\ ~effectPending
    /\ lastOp.op = "setEaRepository"
    /\ Present
    /\ Len(undoStackRef) = 1
    /\ redoStackRef = <<>>
    /\ lastSerializedRef = localStorage
    /\ ModelOfText(undoStackRef[1]) # LiveModel

\* ----------------------------------------------------------------------- C4
\* C4: createNewRepository, a successful load and clearRepository are new
\* history roots: after the settle that follows one of them both stacks are
\* empty and canUndo = canRedo = false.
C4_RootOperationLeavesNoHistory ==
    [][(/\ EffectRuns
        /\ lastOp.op \in {"createNewRepository", "loadRepositoryFromJsonText",
                          "clearRepository"}
        /\ lastOp.returned \in {"ok", "void"})
       => (/\ undoStackRef' = <<>>
           /\ redoStackRef' = <<>>
           /\ ~canUndo'
           /\ ~canRedo')]_vars

\* ----------------------------------------------------------------------- C5
\* C5: the settle of a change applied by undo() or redo() pushes nothing onto
\* the undo stack and clears neither stack.
C5_HistorySettleKeepsStacks ==
    [][(EffectRuns /\ pendingOps \cap {"undo", "redo"} # {})
       => UNCHANGED <<undoStackRef, redoStackRef>>]_vars

\* An undo has been applied and has settled at a later instant than the one
\* its text was written at; the redo stack holds what the undo put there.
C5_Witness ==
    /\ ~effectPending
    /\ lastOp = [op |-> "undo", returned |-> "true"]
    /\ Len(redoStackRef) = 1
    /\ IsSome(lastSerializedRef)
    /\ Val(lastSerializedRef).value.updatedAt = 1
    /\ ModelOfText(Val(lastSerializedRef)) # ModelOfText(redoStackRef[1])

\* ----------------------------------------------------------------------- C6
\* C6: a no-op edit (setEaRepository with a model whose objects, relationships
\* and metadata are those of the recorded text, in the same order even)
\* produces no undo entry and leaves the redo stack intact, whenever it settles.
C6_NoOpEditLeavesHistory ==
    [][(/\ EffectRuns
        /\ pendingOps = {"setEaRepository"}
        /\ Present
        /\ IsSome(lastSerializedRef)
        /\ Val(lastSerializedRef).value.objects = Some(Val(eaRepository).objects)
        /\ Val(lastSerializedRef).value.relationships = Some(Val(eaRepository).relationships)
        /\ Val(lastSerializedRef).value.metadata = metadata)
       => UNCHANGED <<undoStackRef, redoStackRef>>]_vars

\* ----------------------------------------------------------------------- C7
\* C7: undo() on an empty undo stack and redo() on an empty redo stack return
\* false and leave the live model, both stacks and the recorded text unchanged.
C7_EmptyStackIsNoOp ==
    [][(\/ Calls("undo") /\ undoStackRef = <<>>
        \/ Calls("redo") /\ redoStackRef = <<>>)
       => (/\ lastOp'.returned = "false"
           /\ UNCHANGED <<eaRepository, metadata, undoStackRef, redoStackRef,
                          lastSerializedRef>>)]_vars

\* undo() has just failed on an empty stack while a repository is live and
\* the redo stack is not empty.
C7_Witness ==
    /\ lastOp = [op |-> "undo", returned |-> "false"]
    /\ undoStackRef = <<>>
    /\ redoStackRef # <<>>
    /\ Present
    /\ IsSome(lastSerializedRef)

\* ----------------------------------------------------------------------- C8
\* C8: serialize, deserialize, serialize again: the text the effect writes
\* for a model that undo()/redo() has just deserialized from a text, and that
\* nothing has modified since, is that text.
C8_ReserializationIsIdentical ==
    [][(/\ EffectRuns
        /\ pendingOps \subseteq {"undo", "redo"}
        /\ lastOp.op \in {"undo", "redo"}
        /\ lastOp.returned = "true")
       => lastSerializedRef' = lastSerializedRef]_vars

\* ----------------------------------------------------------------------- C9
Strict == Present /\ Val(metadata).governanceMode = "Strict"

\* C9 as stated: in Strict mode every settle whose debt has total > 0 puts or
\* keeps the gate in Blocked and does not write the storage slot.
C9_StrictTotalBlocks ==
    [][(EffectRuns /\ Strict /\ LiveDebt.total > 0)
       => (/\ IsSome(lastSaveBlockedKeyRef')
           /\ localStorage' = localStorage)]_vars

\* C9 amended: in Strict mode every settle whose debt has a mandatory finding,
\* a relationship error, an invalid relationship insert or a missing lifecycle
\* tag puts or keeps the gate in Blocked, under that debt's fingerprint, and
\* does not write the storage slot; relationship warnings alone do not block.
C9_StrictBlockingDebtBlocks ==
    [][(/\ EffectRuns
        /\ Strict
        /\ \/ LiveDebt.mandatoryFindingCount > 0
           \/ LiveDebt.relationshipErrorCount > 0
           \/ LiveDebt.invalidRelationshipInsertCount > 0
           \/ LiveDebt.lifecycleTagMissingCount > 0)
       => (/\ lastSaveBlockedKeyRef' = Some(DebtKey(LiveDebt))
           /\ localStorage' = localStorage)]_vars

\* A Strict repository with a mandatory finding has settled: the gate is
\* Blocked and the storage slot does not hold the live model.
C9_Witness ==
    /\ ~effectPending
    /\ Strict
    /\ LiveDebt.mandatoryFindingCount > 0
    /\ lastSaveBlockedKeyRef = Some(DebtKey(LiveDebt))
    /\ IsSome(localStorage)
    /\ ModelOfText(Val(localStorage)) # LiveModel

\* ---------------------------------------------------------------------- C10
\* C10: in Strict mode a settle that finds total = 0 while the gate is Blocked
\* returns the gate to Compliant, dismisses the notice and writes the snapshot;
\* a repository whose one element lacks ownerRole settles Blocked with
\* mandatoryFindingCount >= 1 and total > 0, nothing written, and the same
\* repository with ownerRole set settles with total = 0 and is written.
C10_StrictRecovery ==
    [][EffectRuns /\ Strict
       => (/\ (LiveDebt.total = 0 /\ IsSome(lastSaveBlockedKeyRef))
                => (/\ lastSaveBlockedKeyRef' = None
                    /\ ~saveBlockedModalRef'
                    /\ noticesOpen' = 0
                    /\ localStorage' = Some(LiveSnapshot))
           /\ eaRepository = Some(RepoUnowned)
                => (/\ LiveDebt.mandatoryFindingCount >= 1
                    /\ LiveDebt.total > 0
                    /\ IsSome(lastSaveBlockedKeyRef')
                    /\ localStorage' = localStorage)
           /\ eaRepository = Some(RepoOwned)
                => (/\ LiveDebt.total = 0
                    /\ lastSaveBlockedKeyRef' = None
                    /\ localStorage' = Some(LiveSnapshot)))]_vars

\* The owned repository is live, Compliant and saved, after a save.blocked
\* entry was logged for it while its element had no ownerRole.
C10_Witness ==
    /\ ~effectPending
    /\ Strict
    /\ eaRepository = Some(RepoOwned)
    /\ lastSaveBlockedKeyRef = None
    /\ noticesOpen = 0
    /\ localStorage = lastSerializedRef
    /\ \E i \in 1..Len(governanceLog) :
          /\ governanceLog[i].type = "save.blocked"
          /\ governanceLog[i].key[1] >= 1
    /\ Len(undoStackRef) > 0
    /\ ModelOfText(undoStackRef[Len(undoStackRef)]).objects
         = ModelOf(RepoUnowned.objects, <<>>, <<>>).objects

\* ===================================================== the history scenario
\* A session that starts from a loaded repository (restored from the storage
\* slot at mount, or imported from a JSON text into an empty provider), makes
\* `edits` distinct edits, undoes as many of them as the undo stack can hold
\* and redoes them, every operation followed by its settle.  With `ticks`, a
\* millisecond passes between every operation and its settle.  scenario.log
\* records the model committed by the settle of the load and of each edit;
\* scenario.kept the models of the undo stack once the last edit has settled.
MaxEdits == HISTORY_LIMIT + 10

Min(a, b) == IF a < b THEN a ELSE b

\* The k-th edit: the application's description is rewritten.
RepoRevision(k) ==
    NewEaRepository(
        <<EaObject("a1", "Application",
                   Append(OwnedAttributes, <<"description", ToString(k)>>))>>, <<>>)

Undoable(edits) == Min(edits, HISTORY_LIMIT)

\* The models the texts of a stack hold, oldest first.
ModelsOf(stack) == [i \in 1..Len(stack) |-> ModelOfText(stack[i])]

\* The last n entries of a sequence.
LastOf(seq, n) == SubSeq(seq, Len(seq) - Min(n, Len(seq)) + 1, Len(seq))

InitHistory ==
    \E start \in {"stored", "import"}, edits \in 1..MaxEdits, ticks \in BOOLEAN :
       /\ InitFrom(IF start = "stored" THEN Some(StoredSnapshot) ELSE None)
       /\ opsLeft = edits + 2 * Undoable(edits) + (IF start = "import" THEN 1 ELSE 0)
       /\ scenario = [phase |-> "mount", start |-> start, edits |-> edits, done |-> 0,
                      ticks |-> ticks, ticked |-> FALSE, log |-> <<>>, kept |-> <<>>,
                      allTrue |-> TRUE]

HistoryImport ==
    /\ scenario.phase = "import"
    /\ ~effectPending
    /\ scenario.done = 0
    /\ loadRepositoryFromJsonText(StoredSnapshot)
    /\ scenario' = [scenario EXCEPT !.done = 1, !.ticked = FALSE]

HistoryEdit ==
    /\ scenario.phase = "edits"
    /\ ~effectPending
    /\ scenario.done < scenario.edits
    /\ setEaRepository(Some(RepoRevision(scenario.done + 1)))
    /\ scenario' = [scenario EXCEPT !.done = @ + 1, !.ticked = FALSE]

HistoryUndo ==
    /\ scenario.phase = "undos"
    /\ ~effectPending
    /\ undo
    /\ scenario' = [scenario EXCEPT !.done = @ + 1, !.ticked = FALSE,
                                    !.allTrue = @ /\ lastOp'.returned = "true"]

HistoryRedo ==
    /\ scenario.phase = "redos"
    /\ ~effectPending
    /\ redo
    /\ scenario' = [scenario EXCEPT !.done = @ + 1, !.ticked = FALSE,
                                    !.allTrue = @ /\ lastOp'.returned = "true"]

HistoryTick ==
    /\ effectPending
    /\ scenario.ticks
    /\ ~scenario.ticked
    /\ TimePasses
    /\ scenario' = [scenario EXCEPT !.ticked = TRUE]

\* The scenario once the pending settle has run.
AfterSettle(sc, liveModel, undoModels) ==
    LET logged == [sc EXCEPT !.log = Append(@, liveModel)]
    IN CASE sc.phase = "mount" /\ sc.start = "import" -> [sc EXCEPT !.phase = "import"]
         [] sc.phase = "mount" /\ sc.start = "stored" -> [logged EXCEPT !.phase = "edits"]
         [] sc.phase = "import" -> [logged EXCEPT !.phase = "edits", !.done = 0]
         [] sc.phase = "edits" /\ sc.done < sc.edits -> logged
         [] sc.phase = "edits" /\ sc.done = sc.edits ->
               [logged EXCEPT !.phase = "undos", !.done = 0, !.kept = undoModels]
         [] sc.phase = "undos" /\ sc.done = Undoable(sc.edits) ->
               [sc EXCEPT !.phase = "redos", !.done = 0]
         [] sc.phase = "redos" /\ sc.done = Undoable(sc.edits) ->
               [sc EXCEPT !.phase = "done", !.done = 0]
         [] OTHER -> sc

HistorySettle ==
    /\ scenario.ticks => scenario.ticked
    /\ persistenceEffect(FALSE)
    /\ scenario' = AfterSettle(scenario,
                               IF Present THEN LiveModel ELSE JsNull,
                               ModelsOf(undoStackRef'))

NextHistory ==
    \/ HistoryImport
    \/ HistoryEdit
    \/ HistoryUndo
    \/ HistoryRedo
    \/ HistoryTick
    \/ HistorySettle

SpecHistory == InitHistory /\ [][NextHistory]_vars

\* ----------------------------------------------------------------------- C1
\* C1: from a loaded repository, after N <= 50 distinct edits, each settled,
\* N undos and then N redos, each settled, all return true, the live model is
\* the model after the N-th edit, the undo stack is the one the N-th edit
\* left, ending with the same N prior states (and nothing else when the
\* history was empty at the load), and the redo stack is empty.
C1_UndoRedoRoundTrip ==
    (scenario.phase = "done" /\ scenario.edits <= HISTORY_LIMIT)
    => LET N == scenario.edits
       IN /\ scenario.allTrue
          /\ Present
          /\ LiveModel = scenario.log[N + 1]
          /\ ModelsOf(undoStackRef) = scenario.kept
          /\ LastOf(ModelsOf(undoStackRef), N) = SubSeq(scenario.log, 1, N)
          /\ (scenario.start = "import" \/ ~scenario.ticks) => Len(undoStackRef) = N
          /\ redoStackRef = <<>>
          /\ canUndo /\ ~canRedo

\* Fifty edits, fifty undos and fifty redos have settled, time passing
\* between every operation and its settle.
C1_Witness ==
    /\ scenario.phase = "done"
    /\ scenario.edits = HISTORY_LIMIT
    /\ scenario.start = "import"
    /\ scenario.ticks
    /\ opsLeft = 0
    /\ ~effectPending
    /\ Len(undoStackRef) = HISTORY_LIMIT
    /\ LiveModel = ModelOf(RepoRevision(HISTORY_LIMIT).objects, <<>>, Val(metadata))

\* ----------------------------------------------------------------------- C3
\* C3: the undo stack and the redo stack never hold more than 50 entries; once
\* n edits have settled the undo stack ends with the min(n, 50) most recent
\* prior states, a push onto the full stack evicting the oldest; after 60
\* edits it holds exactly 50 entries, the oldest 10 prior states gone.
C3_HistoryCap ==
    /\ Len(undoStackRef) <= HISTORY_LIMIT
    /\ Len(redoStackRef) <= HISTORY_LIMIT
    /\ (/\ ~effectPending
        /\ scenario.phase = "edits" \/ (scenario.phase = "undos" /\ scenario.done = 0))
       => LET n == Len(scenario.log) - 1
              prior == SubSeq(scenario.log, 1, n)
          IN /\ LastOf(ModelsOf(undoStackRef), n) = LastOf(prior, HISTORY_LIMIT)
             /\ n >= HISTORY_LIMIT
                  => ModelsOf(undoStackRef) = LastOf(prior, HISTORY_LIMIT)
             /\ n = MaxEdits
                  => /\ Len(undoStackRef) = HISTORY_LIMIT
                     /\ ModelsOf(undoStackRef)
                          = SubSeq(scenario.log, MaxEdits - HISTORY_LIMIT + 1, MaxEdits)

\* Sixty edits have settled and the undo stack is full; fifty undos later the
\* redo stack is full too.
C3_Witness ==
    /\ scenario.phase = "redos"
    /\ scenario.done = 0
    /\ scenario.edits = MaxEdits
    /\ Len(scenario.log) = MaxEdits + 1
    /\ Len(scenario.kept) = HISTORY_LIMIT
    /\ scenario.kept[1] = scenario.log[MaxEdits - HISTORY_LIMIT + 1]
    /\ ~effectPending
    /\ Len(redoStackRef) = HISTORY_LIMIT

\* ---------------------------------------------------------------------- C11
\* The debt has one of the four counts that block a Strict save.
Blocking(summary) ==
    \/ summary.mandatoryFindingCount > 0
    \/ summary.relationshipErrorCount > 0
    \/ summary.invalidRelationshipInsertCount > 0
    \/ summary.lifecycleTagMissingCount > 0

SaveBlockedEntry(summary) == [type |-> "save.blocked", key |-> DebtKey(summary)]

\* C11: a Strict settle with blocking debt whose fingerprint is the one last
\* blocked appends no audit entry and opens no notice; with another
\* fingerprint it appends exactly one save.blocked entry and replaces the
\* notice; no other step appends a save.blocked entry, and at most one
\* blocking notice is open at any time.
C11_SaveBlockedOncePerFingerprint ==
    [][/\ (EffectRuns /\ Strict /\ Blocking(LiveDebt))
          => IF lastSaveBlockedKeyRef = Some(DebtKey(LiveDebt))
             THEN UNCHANGED <<governanceLog, noticesOpen, saveBlockedModalRef>>
             ELSE /\ governanceLog' = Append(governanceLog, SaveBlockedEntry(LiveDebt))
                  /\ saveBlockedModalRef'
                  /\ noticesOpen' = 1
       /\ ~(EffectRuns /\ Strict /\ Blocking(LiveDebt))
          => \/ governanceLog' = governanceLog
             \/ governanceLog'[Len(governanceLog')].type # "save.blocked"
       /\ noticesOpen' <= 1]_vars

\* Two blocking fingerprints have been met, the second settled twice: two
\* save.blocked entries, one notice.
C11_Witness ==
    /\ ~effectPending
    /\ Strict
    /\ opsLeft = 0
    /\ Len(governanceLog) = 2
    /\ governanceLog[1].type = "save.blocked"
    /\ governanceLog[2].type = "save.blocked"
    /\ governanceLog[1].key # governanceLog[2].key
    /\ lastSaveBlockedKeyRef = Some(governanceLog[2].key)
    /\ noticesOpen = 1

\* ---------------------------------------------------------------------- C12
Advisory == Present /\ Val(metadata).governanceMode = "Advisory"

\* C12: an Advisory settle whose debt has the fingerprint last warned about
\* appends no audit entry, and one whose debt has total > 0 and another
\* fingerprint appends exactly one save.warned entry.
C12_SaveWarnedOncePerFingerprint ==
    [][(EffectRuns /\ Advisory)
       => IF LiveDebt.total > 0 /\ lastAdvisoryWarnKeyRef # Some(DebtKey(LiveDebt))
          THEN /\ governanceLog' = Append(governanceLog,
                                          [type |-> "save.warned", key |-> DebtKey(LiveDebt)])
               /\ lastAdvisoryWarnKeyRef' = Some(DebtKey(LiveDebt))
          ELSE governanceLog' = governanceLog]_vars

\* An Advisory repository has settled with two different debts: two
\* save.warned entries.
C12_Witness ==
    /\ ~effectPending
    /\ Advisory
    /\ Len(governanceLog) = 2
    /\ governanceLog[1].type = "save.warned"
    /\ governanceLog[2].type = "save.warned"
    /\ governanceLog[1].key # governanceLog[2].key
    /\ lastAdvisoryWarnKeyRef = Some(DebtKey(LiveDebt))

\* ---------------------------------------------------------------------- C13
\* C13: every Advisory settle with a repository and metadata writes the
\* snapshot to the storage slot, whatever the debt total, and neither blocks
\* nor opens a blocking notice.
C13_AdvisoryAlwaysSaves ==
    [][(EffectRuns /\ Advisory)
       => (/\ localStorage' = Some(LiveSnapshot)
           /\ UNCHANGED <<lastSaveBlockedKeyRef, saveBlockedModalRef, noticesOpen>>
           /\ \/ governanceLog' = governanceLog
              \/ governanceLog'[Len(governanceLog')].type # "save.blocked")]_vars

\* An Advisory repository whose debt would block a Strict save is saved.
C13_Witness ==
    /\ ~effectPending
    /\ Advisory
    /\ Blocking(LiveDebt)
    /\ IsSome(localStorage)
    /\ localStorage = lastSerializedRef
    /\ ModelOfText(Val(localStorage)) = LiveModel

\* ---------------------------------------------------------------------- C14
\* C14: when governanceMode is neither Strict nor Advisory, a settle with a
\* repository and metadata leaves the gate and the audit log alone and writes
\* the snapshot to the storage slot.
C14_NoGateWithoutMode ==
    [][(EffectRuns /\ Present /\ Val(metadata).governanceMode \notin {"Strict", "Advisory"})
       => (/\ localStorage' = Some(LiveSnapshot)
           /\ UNCHANGED <<governanceLog, lastSaveBlockedKeyRef, saveBlockedModalRef,
                          lastAdvisoryWarnKeyRef, noticesOpen>>)]_vars

\* A repository in mode None with debt is saved, the audit log empty.
C14_Witness ==
    /\ ~effectPending
    /\ Present
    /\ Val(metadata).governanceMode = "None"
    /\ LiveDebt.total > 0
    /\ governanceLog = <<>>
    /\ IsSome(localStorage)
    /\ ModelOfText(Val(localStorage)) = LiveModel

\* ======================================================= the scope queries
\* The three pure queries of the scope policy, asked for every scope (absent
\* included) and every type name: a meta-model type, an unknown name, no name.
\* scenario holds the last query and its answer.
ScopeInputs == ARCHITECTURE_SCOPES \cup {JsNull}

TypeNameInputs == {None, Some("Server")} \cup {Some(t) : t \in OBJECT_TYPES}

InitQueries ==
    /\ InitFrom(None)
    /\ opsLeft = 0
    /\ scenario = [phase |-> "query", asked |-> "nothing", scope |-> JsNull,
                   type |-> None, answer |-> None]

Asked(asked, scope, type, answer) ==
    /\ scenario.phase = "query"
    /\ scenario' = [phase |-> "query", asked |-> asked, scope |-> scope,
                    type |-> type, answer |-> answer]
    /\ UNCHANGED <<provider, gate, clock, lastOp, pendingOps, opsLeft>>

AskWritable ==
    \E scope \in ScopeInputs, t \in OBJECT_TYPES :
       Asked("isObjectTypeWritableForScope", scope, Some(t),
             Some(isObjectTypeWritableForScope(scope, t)))

AskAnyWritable ==
    \E scope \in ScopeInputs, type \in TypeNameInputs :
       Asked("isAnyObjectTypeWritableForScope", scope, type,
             Some(isAnyObjectTypeWritableForScope(scope, type)))

AskReadOnlyReason ==
    \E scope \in ScopeInputs, type \in TypeNameInputs :
       Asked("getReadOnlyReason", scope, type, getReadOnlyReason(scope, type))

NextQueries ==
    \/ AskWritable
    \/ AskAnyWritable
    \/ AskReadOnlyReason

SpecQueries == InitQueries /\ [][NextQueries]_vars

\* ---------------------------------------------------------------------- C17
\* The Business layer of the meta-model, type by type.
BusinessTypes ==
    {"CapabilityCategory", "Capability", "SubCapability", "BusinessProcess", "Department"}

\* C17: isObjectTypeWritableForScope is true exactly when the scope is
\* Programme and the type is Programme or Project, or the scope is Business
\* Unit and the type's layer is Business or Application, or the scope is
\* Domain and the type's layer is Application or Technology, or the scope is
\* anything else.
C17_WritableTable ==
    (scenario.phase = "query" /\ scenario.asked = "isObjectTypeWritableForScope")
    => LET scope == scenario.scope
           t == Val(scenario.type)
       IN Val(scenario.answer)
            = CASE scope = "Programme" -> t \in {"Programme", "Project"}
                [] scope = "Business Unit" -> t \in BusinessTypes \cup {"Application"}
                [] scope = "Domain" -> t \in {"Application", "Technology"}
                [] OTHER -> TRUE

\* Domain scope was asked about a Business-layer type and answered no.
C17_Witness ==
    /\ scenario.phase = "query"
    /\ scenario.asked = "isObjectTypeWritableForScope"
    /\ scenario.scope = "Domain"
    /\ scenario.type = Some("Capability")
    /\ scenario.answer = Some(FALSE)

\* ===================================================== the scoped provider
\* A provider mounted on a stored repository of one Technology element, one
\* Application and one Project, under each architecture scope, governance
\* mode None; setEaRepository is called with that repository changed in one
\* place, or with null.
Named(name) == <<<<"name", name>>>>

ScopedObjects ==
    <<EaObject("t1", "Technology", Named("Rack")),
      EaObject("a1", "Application", Named("Billing")),
      EaObject("p1", "Project", Named("Move"))>>

RepoScoped == NewEaRepository(ScopedObjects, <<>>)

\* The objects with object i replaced.
WithObject(i, obj) == [ScopedObjects EXCEPT ![i] = obj]

RepoTechnologyEdited ==
    NewEaRepository(WithObject(1, EaObject("t1", "Technology", Named("Rack 2"))), <<>>)

RepoApplicationEdited ==
    NewEaRepository(WithObject(2, EaObject("a1", "Application", Named("Billing 2"))), <<>>)

RepoProjectEdited ==
    NewEaRepository(WithObject(3, EaObject("p1", "Project", Named("Move 2"))), <<>>)

RepoTechnologyRetyped ==
    NewEaRepository(WithObject(1, EaObject("t1", "Application", Named("Rack"))), <<>>)

RepoTechnologyRemoved == NewEaRepository(Tail(ScopedObjects), <<>>)

RepoApplicationAdded ==
    NewEaRepository(Append(ScopedObjects, EaObject("a2", "Application", Named("Ledger"))), <<>>)

RepoProgrammeAdded ==
    NewEaRepository(Append(ScopedObjects, EaObject("p2", "Programme", Named("Cloud"))), <<>>)

ScopedRepoInputs ==
    {RepoScoped, RepoTechnologyEdited, RepoApplicationEdited, RepoProjectEdited,
     RepoTechnologyRetyped, RepoTechnologyRemoved, RepoApplicationAdded,
     RepoProgrammeAdded}

ScopedSnapshot(scope) ==
    Snapshot(RepoScoped,
             [StoredMetadata EXCEPT !.architectureScope = scope, !.governanceMode = "None"],
             0)

\* scenario.next is the argument of the last setEaRepository call.
InitScope ==
    /\ \E scope \in ARCHITECTURE_SCOPES : InitFrom(Some(ScopedSnapshot(scope)))
    /\ opsLeft = MaxOps
    /\ scenario = [phase |-> "scope", next |-> None]

ScopeSetEaRepository ==
    \E next \in {None} \cup {Some(r) : r \in ScopedRepoInputs} :
       /\ setEaRepository(next)
       /\ scenario' = [phase |-> "scope", next |-> next]

ScopePersistenceEffect == persistenceEffect(FALSE) /\ UNCHANGED scenario

ScopeClockTick == Tick /\ UNCHANGED scenario

NextScope ==
    \/ ScopeSetEaRepository
    \/ ScopePersistenceEffect
    \/ ScopeClockTick

SpecScope == InitScope /\ [][NextScope]_vars

\* ---------------------------------------------------------------------- C15
\* The step is a setEaRepository call under the rendered scope `scope`, with
\* a repository live and a repository as its argument.
SetsUnderScope(scope) ==
    /\ Calls("setEaRepository")
    /\ scenario'.phase = "scope"
    /\ renderedScope = scope
    /\ ScopeOf(metadata) = scope
    /\ IsSome(eaRepository)
    /\ IsSome(scenario'.next)

\* The objects of a repository as a function of their ids.
ObjectsOf(repo) == [id \in ObjectIds(repo.objects) |-> Val(ObjectById(repo.objects, id))]

\* next differs from prev in the attributes of an element of the given type.
EditsAttributesOf(type, prev, next) ==
    \E id \in DOMAIN ObjectsOf(prev) \cap DOMAIN ObjectsOf(next) :
       /\ ObjectsOf(prev)[id].type = type
       /\ ObjectsOf(next)[id].type = type
       /\ Range(ObjectsOf(prev)[id].attributes) # Range(ObjectsOf(next)[id].attributes)

TechnologyReason == getReadOnlyReason("Business Unit", Some("Technology"))

\* C15 as stated: under Business Unit scope a setEaRepository call that
\* changes the attributes of a Technology element is rejected with a warning,
\* the model as before, and the read-only message for it is specific to the
\* Technology type: no other type gets it.
C15_TechnologyEditRejectedWithOwnMessage ==
    [][(/\ SetsUnderScope("Business Unit")
        /\ EditsAttributesOf("Technology", Val(eaRepository), Val(scenario'.next)))
       => (/\ eaRepository' = eaRepository
           /\ lastOp'.returned = "read-only"
           /\ IsSome(TechnologyReason)
           /\ \A t \in OBJECT_TYPES \ {"Technology"} :
                 getReadOnlyReason("Business Unit", Some(t)) # TechnologyReason)]_vars

\* C15 amended: under Business Unit scope a setEaRepository call that changes
\* the attributes of a Technology element is rejected with a warning, the
\* model as before, and the read-only message for it is the one of the scope,
\* naming the editable layers: it is the warning shown, it is not the message
\* given for an unknown type name, and every type outside the Business and
\* Application layers gets the same one.
C15_TechnologyEditRejected ==
    [][(/\ SetsUnderScope("Business Unit")
        /\ EditsAttributesOf("Technology", Val(eaRepository), Val(scenario'.next)))
       => (/\ eaRepository' = eaRepository
           /\ UNCHANGED <<metadata, effectPending>>
           /\ lastOp'.returned = "read-only"
           /\ TechnologyReason = Some(ReadOnlyWarning(renderedScope))
           /\ TechnologyReason # getReadOnlyReason("Business Unit", Some("Server"))
           /\ \A t \in OBJECT_TYPES :
                 getReadOnlyReason("Business Unit", Some(t))
                   = IF t \in BusinessTypes \cup {"Application"}
                     THEN None ELSE TechnologyReason)]_vars

\* An edit of the Technology element has just been refused under Business
\* Unit scope: the stored repository is still the live one.
C15_Witness ==
    /\ scenario.phase = "scope"
    /\ scenario.next = Some(RepoTechnologyEdited)
    /\ lastOp = [op |-> "setEaRepository", returned |-> "read-only"]
    /\ renderedScope = "Business Unit"
    /\ eaRepository = Some(RepoScoped)

\* ---------------------------------------------------------------------- C16
\* next adds, removes or edits (type or attributes) an element whose type,
\* before or after, is not among the given types.
TouchesOutside(types, prev, next) ==
    \E id \in DOMAIN ObjectsOf(prev) \cup DOMAIN ObjectsOf(next) :
       LET before == IF id \in DOMAIN ObjectsOf(prev) THEN Some(ObjectsOf(prev)[id]) ELSE None
           after == IF id \in DOMAIN ObjectsOf(next) THEN Some(ObjectsOf(next)[id]) ELSE None
       IN /\ \/ IsSome(before) /\ Val(before).type \notin types
             \/ IsSome(after) /\ Val(after).type \notin types
          /\ \/ IsNone(before)
             \/ IsNone(after)
             \/ Val(before).type # Val(after).type
             \/ Range(Val(before).attributes) # Range(Val(after).attributes)

\* C16: under Programme scope every setEaRepository change that adds, removes
\* or edits an element whose type is not Programme or Project is rejected and
\* the model stays as it was.
C16_ProgrammeScopeRejects ==
    [][(/\ SetsUnderScope("Programme")
        /\ TouchesOutside({"Programme", "Project"}, Val(eaRepository), Val(scenario'.next)))
       => eaRepository' = eaRepository]_vars

\* ------------------------------------------------- the store, call by call
\* An ArchitectureRepository and the relationship repository built on it,
\* driven by addElement and addRelationship calls; scenario holds the two
\* stores and the last call with its arguments, its result and the stores it
\* found.
ElementInputs ==
    {[id |-> id, elementType |-> t, name |-> n] :
        id \in {"e1", "e2"}, t \in {"Application", "Technology", "Programme"},
        n \in {"first", "second"}}

RelationshipTypeInputs ==
    {"DEPENDS_ON", " DEPENDS_ON ", "HOSTED_ON", "IMPACTS", "SERVES", "constructor"}

RecordInputs ==
    {[id |-> "r", relationshipType |-> t, sourceElementId |-> a, targetElementId |-> b] :
        t \in RelationshipTypeInputs, a \in {"e1", "e2", "e9"}, b \in {"e1", "e2", "e9"}}

NoCall ==
    [op |-> "none", type |-> None, element |-> None, record |-> None,
     ok |-> TRUE, error |-> "",
     storeBefore |-> EmptyArchitectureRepository, relsBefore |-> <<>>]

InitStore ==
    /\ InitFrom(None)
    /\ opsLeft = MaxOps
    /\ scenario = [phase |-> "store", store |-> EmptyArchitectureRepository,
                   rels |-> <<>>, last |-> NoCall]

StoreAddElement ==
    /\ scenario.phase = "store"
    /\ opsLeft > 0
    /\ \E type \in RepositoryCollectionTypes, element \in ElementInputs :
          LET res == addElement(scenario.store, type, element)
          IN scenario' = [scenario EXCEPT
                 !.store = res.store,
                 !.last = [op |-> "addElement", type |-> Some(type),
                           element |-> Some(element), record |-> None,
                           ok |-> res.ok, error |-> res.error,
                           storeBefore |-> scenario.store,
                           relsBefore |-> scenario.rels]]
    /\ opsLeft' = opsLeft - 1
    /\ UNCHANGED <<provider, gate, clock, lastOp, pendingOps>>

StoreAddRelationship ==
    /\ scenario.phase = "store"
    /\ opsLeft > 0
    /\ \E record \in RecordInputs :
          LET res == addRelationship(scenario.rels, scenario.store, record)
          IN scenario' = [scenario EXCEPT
                 !.rels = res.rels,
                 !.last = [op |-> "addRelationship", type |-> None,
                           element |-> None, record |-> Some(record),
                           ok |-> res.ok, error |-> res.error,
                           storeBefore |-> scenario.store,
                           relsBefore |-> scenario.rels]]
    /\ opsLeft' = opsLeft - 1
    /\ UNCHANGED <<provider, gate, clock, lastOp, pendingOps>>

NextStore ==
    \/ StoreAddElement
    \/ StoreAddRelationship

SpecStore == InitStore /\ [][NextStore]_vars

\* ---------------------------------------------------------------------- C18
\* The last call was addRelationship.
AddedRelationship == scenario.phase = "store" /\ scenario.last.op = "addRelationship"

\* The elements of every typed collection, whichever collection holds them.
Stored(store) ==
    UNION {Range(store.coll[c]) : c \in RepositoryCollectionTypes}

\* The element types of the stored elements with the given id.
ResolvedTypes(store, id) == {e.elementType : e \in {x \in Stored(store) : x.id = id}}

\* The five relationship types of the endpoint rule table.
RuleTableTypes == {"DECOMPOSES_TO", "REALIZED_BY", "DEPENDS_ON", "HOSTED_ON", "IMPACTS"}

\* The record's endpoints are stored, its type (blanks around it aside) is
\* one of the table, and the stored endpoints' types are among the rule's.
Admissible(store, record) ==
    LET type == Trim(record.relationshipType)
    IN /\ ResolvedTypes(store, record.sourceElementId) # {}
       /\ ResolvedTypes(store, record.targetElementId) # {}
       /\ type \in RuleTableTypes
       /\ ResolvedTypes(store, record.sourceElementId) \subseteq Val(RELATIONSHIP_ENDPOINT_RULES(type)).from
       /\ ResolvedTypes(store, record.targetElementId) \subseteq Val(RELATIONSHIP_ENDPOINT_RULES(type)).to

\* C18: addRelationship succeeds if and only if both endpoints resolve, the
\* relationship type is in the endpoint rule table and the resolved source
\* and target element types are in the rule's from and to sets; a DEPENDS_ON
\* from an Application to a Technology fails with EndpointTypeMismatch and
\* one from an Application to an Application succeeds.
C18_AddRelationshipAdmits ==
    AddedRelationship =>
       LET last == scenario.last
           record == Val(last.record)
           source == ResolvedTypes(last.storeBefore, record.sourceElementId)
           target == ResolvedTypes(last.storeBefore, record.targetElementId)
       IN /\ last.ok <=> Admissible(last.storeBefore, record)
          /\ last.ok => scenario.rels = Append(last.relsBefore, record)
          /\ (/\ record.relationshipType = "DEPENDS_ON"
              /\ source = {"Application"})
             => /\ target = {"Technology"} => ~last.ok /\ last.error = "EndpointTypeMismatch"
                /\ target = {"Application"} => last.ok

\* A DEPENDS_ON from the stored Application e1 to the stored Technology e2
\* has just been refused.
C18_Witness ==
    /\ AddedRelationship
    /\ Val(scenario.last.record).relationshipType = "DEPENDS_ON"
    /\ Val(scenario.last.record).sourceElementId = "e1"
    /\ Val(scenario.last.record).targetElementId = "e2"
    /\ ResolvedTypes(scenario.store, "e1") = {"Application"}
    /\ ResolvedTypes(scenario.store, "e2") = {"Technology"}
    /\ scenario.last.error = "EndpointTypeMismatch"

\* ---------------------------------------------------------------------- C19
\* C19: addRelationship checks in a fixed order: a record with an unresolved
\* endpoint fails with UnknownEndpoint even if its type is unknown too, a
\* record with resolved endpoints and a type that is not in the rule table
\* fails with UnknownType, EndpointTypeMismatch is only reported when both
\* endpoints resolve and the type is known, and a failed call appends nothing.
C19_CheckOrder ==
    AddedRelationship =>
       LET last == scenario.last
           record == Val(last.record)
           resolved == /\ ResolvedTypes(last.storeBefore, record.sourceElementId) # {}
                       /\ ResolvedTypes(last.storeBefore, record.targetElementId) # {}
           inTable == Trim(record.relationshipType) \in RuleTableTypes
       IN /\ ~resolved => ~last.ok /\ last.error = "UnknownEndpoint"
          /\ (resolved /\ ~inTable) => ~last.ok /\ last.error = "UnknownType"
          /\ last.error = "EndpointTypeMismatch" => resolved /\ inTable
          /\ ~last.ok => scenario.rels = last.relsBefore

\* ---------------------------------------------------------------------- C20
\* The last call was addElement.
AddedElement == scenario.phase = "store" /\ scenario.last.op = "addElement"

\* C20: addElement with an id already present in any collection fails with
\* the duplicate-id error and leaves the store as it was: the element first
\* stored under the id, its collection and the id index.
C20_DuplicateIdRejected ==
    (/\ AddedElement
     /\ \E e \in Stored(scenario.last.storeBefore) : e.id = Val(scenario.last.element).id)
    => /\ ~scenario.last.ok
       /\ scenario.last.error = "DuplicateId"
       /\ scenario.store = scenario.last.storeBefore
       /\ getElementById(scenario.store, Val(scenario.last.element).id)
            = getElementById(scenario.last.storeBefore, Val(scenario.last.element).id)

\* e1 is stored as an Application named first, and a Technology named second
\* with the same id has just been offered to the technologies.
C20_Witness ==
    /\ AddedElement
    /\ scenario.last.type = Some("technologies")
    /\ scenario.last.element = Some([id |-> "e1", elementType |-> "Technology", name |-> "second"])
    /\ scenario.store.coll["applications"]
         = <<[id |-> "e1", elementType |-> "Application", name |-> "first"]>>
    /\ scenario.last.error = "DuplicateId"

\* ---------------------------------------------------------------------- C21
\* C21: after any sequence of addElement calls the id index holds exactly the
\* elements of the five typed collections, no id is held twice (neither by
\* two collections nor twice by one, nor twice by the index), every stored
\* element has the element type of its collection, and an addElement whose
\* elementType does not match the collection is rejected and leaves the
\* store as it was.
C21_IndexIsUnionOfCollections ==
    scenario.phase = "store" =>
       LET store == scenario.store
           held == {<<c, i>> \in RepositoryCollectionTypes \X (1..Len(store.byId)) :
                       i \in 1..Len(store.coll[c])}
       IN /\ Range(store.byId) = Stored(store)
          /\ Len(store.byId) = Cardinality(held)
          /\ Cardinality(StoreIds(store)) = Len(store.byId)
          /\ \A c \in RepositoryCollectionTypes : \A e \in Range(store.coll[c]) :
                e.elementType = expectedElementType(c)
          /\ (/\ AddedElement
              /\ Val(scenario.last.element).elementType
                   # expectedElementType(Val(scenario.last.type)))
             => ~scenario.last.ok /\ store = scenario.last.storeBefore

\* An Application is stored, and a second Application with an id of its own
\* has just been refused by the technologies.
C21_Witness ==
    /\ AddedElement
    /\ Len(scenario.store.coll["applications"]) = 1
    /\ Len(scenario.store.coll["programmes"]) = 0
    /\ Len(scenario.store.byId) = 1
    /\ Val(scenario.last.element).id \notin StoreIds(scenario.store)
    /\ scenario.last.type = Some("technologies")
    /\ Val(scenario.last.element).elementType = "Application"
    /\ scenario.last.error = "ElementTypeMismatch"

\* ------------------------------------------------------ opening a file
\* The provider driven by edits, undo and the first-launch page's file
\* picker; scenario holds the text last handed to loadRepositoryFromJsonText
\* and what the call returned.
SnapshotValue == JsonParse(StoredSnapshot)

\* A well-formed text whose snapshot has no metadata object.
NoMetadataText == JsonStringify([SnapshotValue EXCEPT !.metadata = None])

\* A well-formed text whose metadata names no architecture scope of the list.
BadMetadataText ==
    JsonStringify([SnapshotValue EXCEPT
        !.metadata = Some([StoredMetadata EXCEPT !.architectureScope = "Galaxy"])])

\* Well-formed texts whose objects, or relationships, is no array.
ObjectsNotArrayText == JsonStringify([SnapshotValue EXCEPT !.objects = None])

RelationshipsNotArrayText == JsonStringify([SnapshotValue EXCEPT !.relationships = None])

\* A well-formed text holding two objects with one id: the constructor throws.
DuplicateIdsText ==
    JsonStringify([SnapshotValue EXCEPT
        !.objects = Some(<<EaObject("a1", "Application", OwnedAttributes),
                           EaObject("a1", "Technology", OwnedAttributes)>>)])

\* A snapshot of another repository, with metadata of its own.
OtherSnapshot ==
    Snapshot(RepoUnowned, [StoredMetadata EXCEPT !.repositoryName = "Other",
                                                 !.governanceMode = "Advisory"], 0)

\* A snapshot of a third repository, Strict, whose application has no owner
\* role.
UnownedSnapshot ==
    Snapshot(RepoUnowned, [StoredMetadata EXCEPT !.repositoryName = "Third"], 0)

MalformedTexts ==
    {BrokenText, NoMetadataText, BadMetadataText, ObjectsNotArrayText,
     RelationshipsNotArrayText, DuplicateIdsText}

LoadTextInputs == MalformedTexts \cup {StoredSnapshot, OtherSnapshot, UnownedSnapshot}

InitLoad ==
    /\ \E stored \in {None, Some(StoredSnapshot)} : InitFrom(stored)
    /\ opsLeft = MaxOps + 1
    /\ scenario = [phase |-> "load", text |-> None, result |-> None]

LoadSetEaRepository ==
    /\ \E next \in {Some(RepoOwned), Some(RepoUnowned)} : setEaRepository(next)
    /\ UNCHANGED scenario

LoadUndo == undo /\ UNCHANGED scenario

\* onOpenFileSelected / onImportFileSelected with a file whose text was read.
LoadFileSelected ==
    \E jsonText \in LoadTextInputs :
       /\ loadRepositoryFromJsonText(jsonText)
       /\ scenario' = [phase |-> "load", text |-> Some(jsonText),
                       result |-> LET res == ParseAndDeserialize(jsonText)
                                  IN Some([ok |-> res.ok, error |-> res.error])]

\* onOpenFileSelected / onImportFileSelected with a file whose read fails:
\* file.text() rejects, the catch shows the message and the provider is
\* never called.
LoadFileReadFails ==
    /\ CanCall
    /\ lastOp' = [op |-> "onOpenFileSelected", returned |-> "error"]
    /\ opsLeft' = opsLeft - 1
    /\ scenario' = [phase |-> "load", text |-> None,
                    result |-> Some([ok |-> FALSE, error |-> "Failed to open repository."])]
    /\ UNCHANGED <<provider, gate, clock, pendingOps>>

LoadPersistenceEffect == persistenceEffect(FALSE) /\ UNCHANGED scenario

NextLoad ==
    \/ LoadSetEaRepository
    \/ LoadUndo
    \/ LoadFileSelected
    \/ LoadFileReadFails
    \/ LoadPersistenceEffect

SpecLoad == InitLoad /\ [][NextLoad]_vars

\* ---------------------------------------------------------------------- C22
\* A file has just been picked whose read failed or whose text is no JSON,
\* has invalid metadata, has objects or relationships that is no array, or
\* holds what the repository constructor refuses.
MalformedFilePicked ==
    /\ opsLeft' = opsLeft - 1
    /\ \/ lastOp'.op = "onOpenFileSelected"
       \/ /\ lastOp'.op = "loadRepositoryFromJsonText"
          /\ Val(scenario'.text) \in MalformedTexts

\* C22: a failed load is atomic: when the file read fails, the text is not
\* valid JSON, the metadata is invalid, objects or relationships is not an
\* array, or repository construction throws, the load fails with a message
\* and the live repository, the metadata, the undo stack and the redo stack
\* (and every other piece of provider state) are as before the call.
C22_FailedLoadIsAtomic ==
    [][MalformedFilePicked
       => (/\ lastOp'.returned = "error"
           /\ ~Val(scenario'.result).ok
           /\ Val(scenario'.result).error # ""
           /\ UNCHANGED <<provider, gate>>)]_vars

\* A text with two objects of one id has just been refused while an edited
\* repository was live with an entry on each history stack.
C22_Witness ==
    /\ scenario.phase = "load"
    /\ scenario.text = Some(DuplicateIdsText)
    /\ lastOp = [op |-> "loadRepositoryFromJsonText", returned |-> "error"]
    /\ Len(undoStackRef) > 0
    /\ Len(redoStackRef) > 0
    /\ IsSome(eaRepository)

\* ---------------------------------------------------------------------- C23
\* C23: repository metadata is immutable once created: the live metadata
\* changes only by createNewRepository, a successful load or clearRepository;
\* setEaRepository, undo() and redo() never leave the repository with
\* different metadata.
C23_MetadataChangesOnlyAtRoots ==
    [][metadata' # metadata
       => /\ opsLeft' = opsLeft - 1
          /\ lastOp'.op \in {"createNewRepository", "loadRepositoryFromJsonText",
                             "clearRepository"}]_vars

\* ------------------------------------------------- a storage that may fail
\* The provider over a storage slot whose calls may throw at any settle
\* (quota exceeded, access denied); scenario remembers whether the storage
\* call of the last settle threw.
InitStorage ==
    /\ \E stored \in {None, Some(StoredSnapshot)} : InitFrom(stored)
    /\ opsLeft = MaxOps
    /\ scenario = [phase |-> "storage", threw |-> FALSE]

StorageSetEaRepository ==
    /\ \E next \in {Some(RepoOwned), Some(RepoUnowned)} : setEaRepository(next)
    /\ UNCHANGED scenario

StorageCreateNewRepository ==
    /\ createNewRepository(MetadataInput("Repo", "Enterprise", "Advisory"))
    /\ UNCHANGED scenario

StorageClearRepository == clearRepository /\ UNCHANGED scenario

StorageUndo == undo /\ UNCHANGED scenario

StoragePersistenceEffect ==
    \E storageThrows \in BOOLEAN :
       /\ persistenceEffect(storageThrows)
       /\ scenario' = [phase |-> "storage", threw |-> storageThrows]

NextStorage ==
    \/ StorageSetEaRepository
    \/ StorageCreateNewRepository
    \/ StorageClearRepository
    \/ StorageUndo
    \/ StoragePersistenceEffect

SpecStorage == InitStorage /\ [][NextStorage]_vars

\* ---------------------------------------------------------------------- C24
\* C24: a failure of the durable-storage write during a settle is swallowed:
\* nothing reaches the caller, and the live model, the undo and redo stacks
\* and the recorded current serialization are what a settle whose storage
\* call succeeds leaves: the model as it was, the serialization that of the
\* live model (none when there is no model), and the previous serialization
\* pushed onto the undo stack, the redo stack emptied, exactly when history
\* is not suppressed and the serialization changed.
C24_StorageFailureIsSwallowed ==
    [][(EffectRuns /\ scenario'.phase = "storage" /\ scenario'.threw)
       => LET pushes == /\ Present
                        /\ ~suppressHistoryRef
                        /\ IsSome(lastSerializedRef)
                        /\ lastSerializedRef # Some(LiveSnapshot)
          IN /\ UNCHANGED <<eaRepository, metadata, lastOp, localStorage>>
             /\ lastSerializedRef' = IF Present THEN Some(LiveSnapshot) ELSE None
             /\ undoStackRef' = IF pushes
                                THEN PushBounded(undoStackRef, Val(lastSerializedRef))
                                ELSE undoStackRef
             /\ redoStackRef' = IF pushes THEN <<>> ELSE redoStackRef]_vars

\* ------------------------------------------------- the debt of every model
\* buildGovernanceDebt applied to repositories of up to three objects and two
\* relationships, once per run; scenario holds the repository, the lifecycle
\* coverage and the summary computed.
\* Untagged and soft-deleted.
DeletedAttributes ==
    <<<<"name", "Billing">>, <<"ownerRole", "cio">>, <<"ownerName", "ann">>,
      <<"owningUnit", "it">>, <<"_deleted", JsTrue>>>>

DebtAttributeInputs ==
    {OwnedAttributes, UnownedAttributes, UntaggedAttributes, DeletedAttributes}

\* One type of every strict collection, and two that have none.
DebtTypeInputs ==
    {"Application", "Technology", "Capability", "BusinessProcess", "Programme",
     "Department", "Project"}

DebtObjectsInputs ==
    LET object(id) == {EaObject(id, t, a) : t \in DebtTypeInputs, a \in DebtAttributeInputs}
    IN {<<>>}
       \cup {<<x>> : x \in object("o1")}
       \cup {<<x, y>> : x \in object("o1"),
                        y \in {EaObject("o2", t, OwnedAttributes) : t \in DebtTypeInputs}}
       \cup {<<EaObject(" o1 ", "Programme", OwnedAttributes),
               EaObject("o2", "Application", OwnedAttributes)>>,
             <<EaObject("o1", "Department", OwnedAttributes),
               EaObject("o2", "Application", OwnedAttributes),
               EaObject("o3", "BusinessProcess", OwnedAttributes)>>}

\* The relationships the repository constructor accepts over the objects.
DebtRelationshipInputs(objects) ==
    {r \in {EaRelationship(a, b, t, attrs) :
               a \in ObjectIds(objects), b \in ObjectIds(objects),
               t \in RELATIONSHIP_TYPES,
               attrs \in {<<>>, <<<<"dependencyStrength", "Hard">>>>}} :
        EaRepositoryAccepts(objects, <<r>>)}

DebtRepoInputs ==
    UNION {{NewEaRepository(objects, rels) :
               rels \in {<<>>}
                        \cup {<<r>> : r \in DebtRelationshipInputs(objects)}
                        \cup {<<r, q>> : r \in DebtRelationshipInputs(objects),
                                         q \in DebtRelationshipInputs(objects)}} :
           objects \in DebtObjectsInputs}

CoverageInputs == LIFECYCLE_COVERAGE_OPTIONS \cup {JsNull}

InitDebt ==
    /\ InitFrom(None)
    /\ opsLeft = 0
    /\ scenario = [phase |-> "debt", repo |-> None, coverage |-> JsNull, summary |-> None]

Aggregate ==
    /\ scenario.phase = "debt"
    /\ IsNone(scenario.summary)
    /\ \E repo \in DebtRepoInputs, coverage \in CoverageInputs :
          scenario' = [phase |-> "debt", repo |-> Some(repo), coverage |-> coverage,
                       summary |-> Some(buildGovernanceDebt(repo, coverage))]
    /\ UNCHANGED <<provider, gate, clock, lastOp, pendingOps, opsLeft>>

NextDebt == Aggregate

SpecDebt == InitDebt /\ [][NextDebt]_vars

\* ---------------------------------------------------------------------- C25
\* A debt has been computed.
Aggregated == scenario.phase = "debt" /\ IsSome(scenario.summary)

\* C25: the summary's total is mandatoryFindingCount + relationshipErrorCount
\* + relationshipWarningCount + invalidRelationshipInsertCount +
\* lifecycleTagMissingCount, and lifecycleTagMissingCount is the number of
\* objects that are not soft-deleted and have no lifecycle state when the
\* lifecycle coverage is Both, and zero under any other coverage.
C25_TotalIsSumOfCounts ==
    Aggregated =>
       LET summary == Val(scenario.summary)
           objects == Val(scenario.repo).objects
           untagged == {i \in 1..Len(objects) :
                           /\ AttrGet(objects[i].attributes, "_deleted") # JsTrue
                           /\ IsNone(getLifecycleStateFromAttributes(objects[i].attributes))}
       IN /\ summary.total = summary.mandatoryFindingCount
                             + summary.relationshipErrorCount
                             + summary.relationshipWarningCount
                             + summary.invalidRelationshipInsertCount
                             + summary.lifecycleTagMissingCount
          /\ summary.lifecycleTagMissingCount =
                IF scenario.coverage = "Both" THEN Cardinality(untagged) ELSE 0

\* Under coverage Both, of an untagged soft-deleted object and a tagged one
\* none is counted, and the debt has items of other kinds.
C25_Witness ==
    /\ Aggregated
    /\ scenario.coverage = "Both"
    /\ Len(Val(scenario.repo).objects) = 2
    /\ Val(scenario.repo).objects[1].attributes = DeletedAttributes
    /\ Val(scenario.summary).lifecycleTagMissingCount = 0
    /\ Val(scenario.summary).invalidRelationshipInsertCount > 0
    /\ Val(scenario.summary).total > Val(scenario.summary).invalidRelationshipInsertCount

\* ---------------------------------------------------------------------- C26
\* The object types that have no strict collection.
UnmappedTypes == {"Department", "Project", "Principle", "Requirement"}

\* The repository without its objects of unmapped types and without the
\* relationships that touch them.
WithoutUnmapped(repo) ==
    LET keep == SelectSeq(repo.objects, LAMBDA obj : obj.type \notin UnmappedTypes)
    IN NewEaRepository(keep,
          SelectSeq(repo.relationships,
                    LAMBDA rel : rel.fromId \in ObjectIds(keep) /\ rel.toId \in ObjectIds(keep)))

\* C26: an object whose type has no strict collection (Department, Project,
\* Principle, Requirement) fails typed insertion and surfaces as a governance
\* debt item: the debt total of a model that holds such an object is higher
\* than the total of the model without it.
C26_UnmappedTypeRaisesDebt ==
    (/\ Aggregated
     /\ \E obj \in Range(Val(scenario.repo).objects) : obj.type \in UnmappedTypes)
    => Val(scenario.summary).total
         > buildGovernanceDebt(WithoutUnmapped(Val(scenario.repo)), scenario.coverage).total

\* ---------------------------------------------------------------------- C27
\* The typed element store buildGovernanceDebt builds from the objects.
TypedStore(repo) == ProjectObjects(repo.objects, 1, EmptyArchitectureRepository)

\* Both endpoint ids of the relationship, blanks around them aside, are ids
\* of elements of the typed store.
EndpointsResolve(repo, rel) ==
    /\ Trim(rel.fromId) \in {e.id : e \in Stored(TypedStore(repo))}
    /\ Trim(rel.toId) \in {e.id : e \in Stored(TypedStore(repo))}

\* The typed relationship store refuses the relationship.
Rejected(repo, rel) ==
    ~addRelationship(<<>>, TypedStore(repo),
                     [relationshipType |-> Trim(rel.type),
                      sourceElementId |-> Trim(rel.fromId),
                      targetElementId |-> Trim(rel.toId)]).ok

\* The repository without its relationships that have an unresolved endpoint.
WithoutUnresolved(repo) ==
    NewEaRepository(repo.objects,
                    SelectSeq(repo.relationships, LAMBDA rel : EndpointsResolve(repo, rel)))

\* C27: invalidRelationshipInsertCount is the number of source relationships
\* whose two endpoint ids both resolve into the typed element store and that
\* the typed relationship store rejects; a relationship with an endpoint that
\* did not resolve contributes to no debt count: the summary is that of the
\* model without it.
C27_InvalidInsertsAreRejectedResolved ==
    Aggregated =>
       LET repo == Val(scenario.repo)
           rels == repo.relationships
       IN /\ Val(scenario.summary).invalidRelationshipInsertCount
               = Cardinality({i \in 1..Len(rels) :
                                 EndpointsResolve(repo, rels[i]) /\ Rejected(repo, rels[i])})
          /\ Val(scenario.summary)
               = buildGovernanceDebt(WithoutUnresolved(repo), scenario.coverage)

\* A model with a relationship that starts at a Department, which has no
\* typed element, and one between typed elements that the typed store
\* rejected.
C27_Witness ==
    /\ Aggregated
    /\ Len(Val(scenario.repo).objects) = 3
    /\ Val(scenario.repo).relationships
         = <<EaRelationship("o1", "o2", "OWNS", <<>>),
             EaRelationship("o2", "o3", "SUPPORTS", <<>>)>>
    /\ Val(scenario.summary).invalidRelationshipInsertCount = 1

\* ---------------------------------------------------------------------- C28
\* next differs from prev, and only by elements added or removed whose types
\* are writable in the scope: every other element is in both, the same.
OnlyAddsOrRemovesWritable(scope, prev, next) ==
    /\ DOMAIN ObjectsOf(prev) # DOMAIN ObjectsOf(next)
    /\ \A id \in DOMAIN ObjectsOf(prev) \cup DOMAIN ObjectsOf(next) :
          IF id \in DOMAIN ObjectsOf(prev) /\ id \in DOMAIN ObjectsOf(next)
          THEN ObjectsOf(prev)[id] = ObjectsOf(next)[id]
          ELSE IF id \in DOMAIN ObjectsOf(prev)
          THEN isObjectTypeWritableForScope(scope, ObjectsOf(prev)[id].type)
          ELSE isObjectTypeWritableForScope(scope, ObjectsOf(next)[id].type)

\* C28: under Business Unit scope, and likewise under Domain scope, a
\* setEaRepository change that only adds or removes elements whose types are
\* writable in that scope (a new Application under Business Unit scope) is
\* accepted and becomes the live model.
C28_WritableAdditionAccepted ==
    [][\A scope \in {"Business Unit", "Domain"} :
          (/\ SetsUnderScope(scope)
           /\ OnlyAddsOrRemovesWritable(scope, Val(eaRepository), Val(scenario'.next)))
          => /\ eaRepository' = scenario'.next
             /\ lastOp'.returned = "set"]_vars

\* ---------------------------------------------------------------------- C29
\* The elements of the repository whose types are not writable in the scope.
NonWritableElements(scope, repo) ==
    {obj \in Range(repo.objects) : ~isObjectTypeWritableForScope(scope, obj.type)}

\* C29: under Business Unit or Domain scope no sequence of setEaRepository
\* calls changes a non-writable element: whatever was set, also null and then
\* a new repository, the live repository holds the non-writable elements the
\* restored repository held, with their types and attributes.
C29_NonWritableElementsStay ==
    (/\ scenario.phase = "scope"
     /\ ScopeOf(metadata) \in {"Business Unit", "Domain"}
     /\ IsSome(eaRepository))
    => NonWritableElements(ScopeOf(metadata), Val(eaRepository))
         = NonWritableElements(ScopeOf(metadata), RepoScoped)

\* ---------------------------------------------------------------------- C30
\* C30: restoring a repository from durable storage at startup creates no
\* history entry: after the first settle following startup and before any
\* edit, the undo stack is empty and canUndo is false.
C30_RestoreLeavesNoHistory ==
    (/\ scenario = NoScenario
     /\ lastOp.op = "mount"
     /\ ~effectPending
     /\ IsSome(eaRepository))
    => undoStackRef = <<>> /\ ~canUndo

\* ---------------------------------------------------------------------- C31
\* The settle is the first one of a repository made by createNewRepository or
\* by a successful load.
FirstSettleOfNewRepository ==
    /\ EffectRuns
    /\ Present
    /\ pendingOps \cap {"createNewRepository", "loadRepositoryFromJsonText"} # {}

\* C31: the gate's notification state is per repository instance: the first
\* settle of a new repository with debt appends an audit entry (save.blocked
\* in Strict mode when blocked, save.warned in Advisory mode when the total is
\* above zero), also when its fingerprint is the one last notified for the
\* repository before it.
C31_NewRepositoryIsNotifiedAfresh ==
    [][FirstSettleOfNewRepository
       => /\ (Strict /\ Blocking(LiveDebt))
             => governanceLog' = Append(governanceLog, SaveBlockedEntry(LiveDebt))
          /\ (Advisory /\ LiveDebt.total > 0)
             => governanceLog'
                  = Append(governanceLog, [type |-> "save.warned", key |-> DebtKey(LiveDebt)])]_vars

\* ---------------------------------------------------------------------- C32
\* C32: the suppression flag set by undo() / redo() is consumed only by the
\* settle of that undo / redo: the settle of an edit made through
\* setEaRepository whose serialization differs from the last recorded one
\* pushes the recorded one onto the undo stack, also when the edit was issued
\* after an undo() / redo() call and before the settle that follows it.
C32_EditAfterUndoIsRecorded ==
    [][(/\ EffectRuns
        /\ Present
        /\ lastOp = [op |-> "setEaRepository", returned |-> "set"]
        /\ IsSome(lastSerializedRef)
        /\ lastSerializedRef # Some(LiveSnapshot))
       => undoStackRef' = PushBounded(undoStackRef, Val(lastSerializedRef))]_vars

\* ---------------------------------------------------------------------- C33
\* The debt of the snapshot held in the storage slot.
StoredDebt ==
    LET stored == JsonParse(Val(localStorage))
    IN buildGovernanceDebt(NewEaRepository(Val(stored.objects), Val(stored.relationships)),
                           Val(stored.metadata).lifecycleCoverage)

\* The storage slot holds a snapshot whose metadata says Strict.
StoredStrict ==
    /\ IsSome(localStorage)
    /\ Val(JsonParse(Val(localStorage)).metadata).governanceMode = "Strict"

\* C33: in every reachable state a snapshot in the storage slot whose
\* metadata says Strict has no blocking debt (no mandatory finding, no
\* relationship error, no invalid relationship insert, no missing lifecycle
\* tag), it was put there by a settle that found none, and a blocked settle
\* never writes the slot.
C33_StrictSlotHoldsNoBlockingDebt ==
    /\ [](StoredStrict => ~Blocking(StoredDebt))
    /\ [][/\ (EffectRuns /\ Strict /\ Blocking(LiveDebt)) => localStorage' = localStorage
          /\ (localStorage' # localStorage /\ StoredStrict')
             => /\ EffectRuns /\ Strict /\ ~Blocking(LiveDebt)
                /\ localStorage' = Some(LiveSnapshot)]_vars

\* A Strict model with blocking debt is live and settled while the slot still
\* holds the snapshot of the compliant model written before it.
C33_Witness ==
    /\ scenario = NoScenario
    /\ ~effectPending
    /\ Strict
    /\ Blocking(LiveDebt)
    /\ StoredStrict
    /\ lastSaveBlockedKeyRef = Some(DebtKey(LiveDebt))
    /\ Val(localStorage) # StoredSnapshot
    /\ ModelOfText(Val(localStorage)) # LiveModel

\* ---------------------------------------------------------------------- C34
\* C34: in every settled state canUndo is true exactly when the undo stack is
\* non-empty and canRedo is true exactly when the redo stack is non-empty.
C34_FlagsMirrorStacks ==
    (scenario = NoScenario /\ ~effectPending)
    => /\ canUndo = (Len(undoStackRef) > 0)
       /\ canRedo = (Len(redoStackRef) > 0)

\* An undo has been settled that left entries on both stacks, so both flags
\* are up.
C34_Witness ==
    /\ scenario = NoScenario
    /\ ~effectPending
    /\ Present
    /\ lastOp = [op |-> "undo", returned |-> "true"]
    /\ Len(undoStackRef) > 0
    /\ Len(redoStackRef) > 0
    /\ canUndo
    /\ canRedo

\* ---------------------------------------------------------------------- C35
\* The step is a setEaRepository call that the scope check rejects.
RejectedByScope ==
    /\ Calls("setEaRepository")
    /\ lastOp'.returned = "read-only"

\* C35: a setEaRepository change rejected by the scope check has no other
\* effect: the undo stack, the redo stack, the recorded current
\* serialization, the storage slot and the audit log are unchanged by it, and
\* it schedules no run of the persistence effect that could change them.
C35_RejectionHasNoOtherEffect ==
    [][RejectedByScope
       => /\ UNCHANGED <<undoStackRef, redoStackRef, lastSerializedRef,
                         localStorage, governanceLog>>
          /\ UNCHANGED <<eaRepository, metadata, canUndo, canRedo, effectPending>>]_vars

\* A retyping of the Technology element has been refused with history on the
\* undo stack and nothing left to settle.
C35_Witness ==
    /\ scenario.phase = "scope"
    /\ scenario.next = Some(RepoTechnologyRetyped)
    /\ lastOp = [op |-> "setEaRepository", returned |-> "read-only"]
    /\ Len(undoStackRef) > 0
    /\ IsSome(lastSerializedRef)
    /\ ~effectPending

\* ---------------------------------------------------------------------- C36
\* The relationship is legal under RELATIONSHIP_TYPE_DEFINITIONS: its type is
\* a meta-model type and the types of its endpoints are among the type's
\* fromTypes and toTypes.
LegalUnderMetaModel(repo, rel) ==
    LET from == ObjectById(repo.objects, rel.fromId)
        to == ObjectById(repo.objects, rel.toId)
    IN /\ IsSome(from) /\ IsSome(to)
       /\ isValidRelationshipType(rel.type)
       /\ Val(from).type \in RelationshipTypeFromTypes(rel.type)
       /\ Val(to).type \in RelationshipTypeToTypes(rel.type)

\* C36: every relationship that is legal under the UI meta-model and whose
\* two endpoints both project into the typed element store is accepted by the
\* typed relationship store during buildGovernanceDebt, so a model that is
\* valid under the meta-model has invalidRelationshipInsertCount = 0.
C36_RuleTablesAgree ==
    Aggregated =>
       LET repo == Val(scenario.repo)
       IN /\ \A rel \in Range(repo.relationships) :
                (LegalUnderMetaModel(repo, rel) /\ EndpointsResolve(repo, rel))
                => ~Rejected(repo, rel)
          /\ EaRepositoryAccepts(repo.objects, repo.relationships)
             => Val(scenario.summary).invalidRelationshipInsertCount = 0

\* ---------------------------------------------------------------------- C37
\* C37: the two scope queries agree: for every scope and every type name (a
\* meta-model type, an unknown name, or no name), getReadOnlyReason returns
\* no message exactly when isAnyObjectTypeWritableForScope returns true.
C37_ScopeQueriesAgree ==
    /\ (scenario.phase = "query" /\ scenario.asked = "getReadOnlyReason")
       => (IsNone(scenario.answer)
             <=> isAnyObjectTypeWritableForScope(scenario.scope, scenario.type))
    /\ (scenario.phase = "query" /\ scenario.asked = "isAnyObjectTypeWritableForScope")
       => (Val(scenario.answer)
             <=> IsNone(getReadOnlyReason(scenario.scope, scenario.type)))

\* ========================================================= CatalogTableTab
\* The component's props and state are kept in scenario: kind (the prop),
\* loading and rows (useState), requests (the fetches in flight, oldest first,
\* each with the kind it was started for and the `cancelled` variable of its
\* effect run), effectDue (the component has rendered with a new kind and the
\* effect has not run yet) and answered (the request settled last).
CatalogKind == {"capabilities", "processes", "applications", "technologies", "programmes"}

\* The kinds handed to the component; "reports" is a value outside
\* CatalogKind, for which no fetch branch applies.
CatalogKindInputs == CatalogKind \cup {"reports"}

\* What a getRepository...() call settles with: a response whose data is an
\* array of rows of the kind, a response whose data is no array (None), or a
\* rejection.
CatalogResponseInputs(kind) ==
    {[ok |-> TRUE, data |-> Some(<<>>)], [ok |-> TRUE, data |-> None],
     [ok |-> FALSE, data |-> None]}
    \cup {[ok |-> TRUE, data |-> Some(<<[id |-> kind, name |-> n]>>)] :
             n \in {"first", "second"}}

\* Array.isArray(res?.data) ? res.data : []
CatalogRowsOf(res) == IF IsSome(res.data) THEN Val(res.data) ELSE <<>>

\* The effect on [kind]: the cleanup of the previous run sets its `cancelled`,
\* then setLoading(true) and the fetch for the kind is started; for a value
\* outside CatalogKind the async body runs through without awaiting:
\* setRows([]) and, in finally, setLoading(false).
CatalogEffect(catalog) ==
    LET cleaned == [i \in DOMAIN catalog.requests |->
                       [catalog.requests[i] EXCEPT !.cancelled = TRUE]]
    IN IF catalog.kind \in CatalogKind
       THEN [catalog EXCEPT !.effectDue = FALSE,
                            !.loading = TRUE,
                            !.requests = Append(cleaned, [kind |-> catalog.kind,
                                                          cancelled |-> FALSE])]
       ELSE [catalog EXCEPT !.effectDue = FALSE,
                            !.requests = cleaned,
                            !.rows = <<>>,
                            !.loading = FALSE]

\* The continuation of the async body after the await of request i: setRows
\* on a response and, in finally, setLoading(false), both only when the run
\* was not cancelled; a rejection goes straight to finally.
CatalogSettle(catalog, i, res) ==
    LET req == catalog.requests[i]
        rest == SubSeq(catalog.requests, 1, i - 1)
                \o SubSeq(catalog.requests, i + 1, Len(catalog.requests))
    IN [catalog EXCEPT !.requests = rest,
                       !.answered = Some(req),
                       !.rows = IF ~req.cancelled /\ res.ok THEN CatalogRowsOf(res) ELSE @,
                       !.loading = IF ~req.cancelled THEN FALSE ELSE @]

InitCatalog ==
    /\ InitFrom(None)
    /\ opsLeft = MaxOps
    /\ \E kind \in CatalogKindInputs :
          scenario = [phase |-> "catalog", kind |-> kind, loading |-> TRUE, rows |-> <<>>,
                      requests |-> <<>>, effectDue |-> TRUE, answered |-> None]

\* The parent renders the tab with another kind.
CatalogSelectKind ==
    /\ scenario.phase = "catalog"
    /\ ~scenario.effectDue
    /\ opsLeft > 0
    /\ \E kind \in CatalogKindInputs \ {scenario.kind} :
          scenario' = [scenario EXCEPT !.kind = kind, !.effectDue = TRUE]
    /\ opsLeft' = opsLeft - 1
    /\ UNCHANGED <<provider, gate, clock, lastOp, pendingOps>>

CatalogRunEffect ==
    /\ scenario.phase = "catalog"
    /\ scenario.effectDue
    /\ scenario' = CatalogEffect(scenario)
    /\ UNCHANGED <<provider, gate, clock, lastOp, pendingOps, opsLeft>>

CatalogResponse ==
    /\ scenario.phase = "catalog"
    /\ \E i \in 1..Len(scenario.requests) :
          \E res \in CatalogResponseInputs(scenario.requests[i].kind) :
             scenario' = CatalogSettle(scenario, i, res)
    /\ UNCHANGED <<provider, gate, clock, lastOp, pendingOps, opsLeft>>

NextCatalog ==
    \/ CatalogSelectKind
    \/ CatalogRunEffect
    \/ CatalogResponse

SpecCatalog == InitCatalog /\ [][NextCatalog]_vars

\* ---------------------------------------------------------------------- C38
\* The rows are rows fetched for the kind, or there are none.
RowsAreOf(rows, kind) == \A i \in 1..Len(rows) : rows[i].id = kind

\* The step settles a request of a superseded effect run.
SupersededResponse ==
    /\ Len(scenario'.requests) < Len(scenario.requests)
    /\ Val(scenario'.answered).cancelled

\* C38: in the catalog table, once the effect has run for the selected kind,
\* whenever loading is false the rows shown are the result fetched for the
\* selected kind (or empty), also when the fetch for the new kind fails; a
\* response that arrives for a superseded kind never overwrites the rows or
\* the loading flag.
C38_RowsBelongToSelectedKind ==
    /\ []((scenario.phase = "catalog" /\ ~scenario.effectDue /\ ~scenario.loading)
          => RowsAreOf(scenario.rows, scenario.kind))
    /\ [][(scenario.phase = "catalog" /\ SupersededResponse)
          => /\ scenario'.rows = scenario.rows
             /\ scenario'.loading = scenario.loading]_vars

====
